---- MODULE Spec2Model ----
(***************************************************************************)
(* Block-level bundle state of the EVM engine: BundleState with its        *)
(* apply / extend / revert / detach / take_reverts / into_plain_state      *)
(* operations                                                              *)
(* (crates/revm/src/db/states/bundle_state.rs), and the EVM driver:        *)
(* top-level call / create with call_inner / create_inner                  *)
(* (src/evm_impl.rs).                                                      *)
(***************************************************************************)
EXTENDS Integers, Sequences, FiniteSets, TLC

VARIABLES
    bundle,     \* the BundleState the operations are called on
    detached,   \* Option: the bundle detach_lower_part_reverts returned last
    taken,      \* Option: the StateReverts take_reverts returned last, the
                \* changeset into_plain_state_sorted returned, or the
                \* transitions and retention handed to the last apply
    op,         \* name of the last operation
    arg,        \* its numeric argument (revert, detach_lower_part_reverts)
    ret,        \* the bool revert_latest returned last
    panicked,   \* "none", or the panic that halted the process
    before,     \* the bundle the last operation was called on
    upper,      \* the bundle handed to extend, when it was the last operation
    snaps,      \* per reverts entry of bundle: the extend that recorded it
                \* (the bundle extended, the bundle handed over, the result)
    undone,     \* the snaps entries the last operation popped, latest first
    streak,     \* consecutive revert_latest calls that returned true
    recorded,   \* reverts entries recorded by extends and applies so far
    evm,        \* Option: the EVMImpl of one transaction (see EVMNew)
    machine,    \* Option: the Machine of one frame (see MachineNew)
    sstores     \* Option: the SSTOREs of one transaction to one slot (see
                \* SstoresNew)

vars == <<bundle, detached, taken, op, arg, ret, panicked, before, upper,
          snaps, undone, streak, recorded, evm, machine, sstores>>

\* the variables of the bundle state
bundleVars == <<bundle, detached, taken, op, arg, ret, panicked, before, upper,
                snaps, undone, streak, recorded>>

(***************************************************************************)
(* Bounds of the model.                                                    *)
(***************************************************************************)
\* number of reverts entries (transitions) recorded in one run
MaxReverts == 2
\* largest count handed to revert / detach_lower_part_reverts
MaxN == 3

(***************************************************************************)
(* Primitive values.                                                       *)
(***************************************************************************)
account1 == 96
account2 == 97
slot == 5
KECCAK_EMPTY == 0

Addr == {account1, account2}
Keys == {slot, slot + 1}
\* code hashes: the canonical empty hash and one deployed contract
CodeHash == KECCAK_EMPTY + 1
Hashes == {KECCAK_EMPTY, CodeHash}

None == <<>>
Some(x) == <<x>>
IsSome(o) == o # <<>>

EmptyMap == [k \in {} |-> 0]

\* HashMap::insert / Extend for maps: entries of m2 win
MapExtend(m1, m2) ==
    [k \in DOMAIN m1 \cup DOMAIN m2 |-> IF k \in DOMAIN m2 THEN m2[k] ELSE m1[k]]

MapRemove(m, key) == [k \in DOMAIN m \ {key} |-> m[k]]

MapInsert(m, key, v) == [k \in DOMAIN m \cup {key} |-> IF k = key THEN v ELSE m[k]]

AccountInfo(balance, nonce, code_hash) ==
    [balance |-> balance, nonce |-> nonce, code_hash |-> code_hash]

StorageSlot(o_val, p_val) == [original_value |-> o_val, present_value |-> p_val]

AccountStatus ==
    {"LoadedNotExisting", "Loaded", "LoadedEmptyEIP161", "InMemoryChange",
     "Changed", "Destroyed", "DestroyedChanged", "DestroyedAgain"}

RevertToSlotSome(v) == [tag |-> "Some", value |-> v]
RevertToSlotDestroyed == [tag |-> "Destroyed", value |-> 0]

DoNothing == [tag |-> "DoNothing", info |-> None]
DeleteIt == [tag |-> "DeleteIt", info |-> None]
RevertTo(info) == [tag |-> "RevertTo", info |-> Some(info)]

AccountRevert(account, storage, previous_status, wipe_storage) ==
    [account |-> account, storage |-> storage,
     previous_status |-> previous_status, wipe_storage |-> wipe_storage]

BundleAccount(original_info, info, storage, status) ==
    [info |-> info, original_info |-> original_info,
     storage |-> storage, status |-> status]

BundleState(state, contracts, reverts) ==
    [state |-> state, contracts |-> contracts, reverts |-> reverts]

BundleStateDefault == BundleState(EmptyMap, EmptyMap, <<>>)

\* bytecode stored under a hash (one bytecode per hash)
Bytecode(hash) == hash + 100

(***************************************************************************)
(* AccountStatus / BundleAccount helpers.                                  *)
(***************************************************************************)
StatusWasDestroyed(status) ==
    status \in {"Destroyed", "DestroyedChanged", "DestroyedAgain"}

AccountWasDestroyed(account) == StatusWasDestroyed(account.status)

\* BundleAccount::is_info_changed
IsInfoChanged(account) == account.info # account.original_info

\* StorageSlot::is_changed
SlotIsChanged(s) == s.original_value # s.present_value

\* AccountStatus::transition(self, other)
StatusTransition(this, other) ==
    IF StatusWasDestroyed(this) /\ ~StatusWasDestroyed(other)
    THEN "DestroyedChanged"
    ELSE IF ~StatusWasDestroyed(this) /\ ~StatusWasDestroyed(other)
            /\ this = "InMemoryChange"
         THEN "InMemoryChange"
         ELSE other

\* one slot of an AccountRevert applied to an account's storage
RevertSlot(storage, key, rslot) ==
    IF rslot.tag = "Some"
    THEN IF key \in DOMAIN storage
         THEN [storage EXCEPT ![key].present_value = rslot.value]
         ELSE MapInsert(storage, key, StorageSlot(rslot.value, rslot.value))
    ELSE MapRemove(storage, key)

RevertStorage(storage, rstorage) ==
    [k \in {x \in DOMAIN storage \cup DOMAIN rstorage :
              ~(x \in DOMAIN rstorage /\ rstorage[x].tag = "Destroyed")} |->
        IF k \in DOMAIN rstorage
        THEN RevertSlot(storage, k, rstorage[k])[k]
        ELSE storage[k]]

\* BundleAccount::revert: the account after the revert and whether it is to
\* be removed from the bundle
BundleAccountRevert(account, revert) ==
    LET a1 == [account EXCEPT !.status = revert.previous_status]
    IN  IF revert.account.tag = "DeleteIt"
        THEN IF a1.original_info = None
             THEN [account |-> [a1 EXCEPT !.info = None, !.storage = EmptyMap],
                   remove |-> TRUE]
             ELSE [account |->
                     [a1 EXCEPT !.info = None,
                                !.storage = [k \in DOMAIN a1.storage |->
                                    [a1.storage[k] EXCEPT !.present_value = 0]]],
                   remove |-> FALSE]
        ELSE LET a2 == IF revert.account.tag = "RevertTo"
                       THEN [a1 EXCEPT !.info = revert.account.info]
                       ELSE a1
             IN  [account |-> [a2 EXCEPT !.storage =
                                  RevertStorage(a2.storage, revert.storage)],
                  remove |-> FALSE]

(***************************************************************************)
(* BundleState::new                                                        *)
(***************************************************************************)
\* state: map address -> [original, present, storage: key -> <<o_val, p_val>>]
\* reverts: sequence of blocks, each a sequence of
\*          [address, account: None | Some(None) | Some(Some(info)),
\*           storage: key -> value]
BundleStateNew(state, reverts, contracts) ==
    BundleState(
        [a \in DOMAIN state |->
            BundleAccount(state[a].original, state[a].present,
                [k \in DOMAIN state[a].storage |->
                    StorageSlot(state[a].storage[k][1], state[a].storage[k][2])],
                "Changed")],
        contracts,
        [i \in 1..Len(reverts) |->
            [j \in 1..Len(reverts[i]) |->
                LET r == reverts[i][j]
                IN  [address |-> r.address,
                     revert |-> AccountRevert(
                        IF r.account = None THEN DoNothing
                        ELSE IF r.account[1] = None THEN DeleteIt
                        ELSE RevertTo(r.account[1][1]),
                        [k \in DOMAIN r.storage |-> RevertToSlotSome(r.storage[k])],
                        "Changed", FALSE)]]])

(***************************************************************************)
(* BundleState::apply_block_substate_and_create_reverts                    *)
(***************************************************************************)
\* lines 20-25
IncludesReverts(retention) == retention = "Reverts"

AccountInfoDefault == AccountInfo(0, 0, KECCAK_EMPTY)

TransitionAccount(info, status, previous_info, previous_status, storage, storage_was_destroyed) ==
    [info |-> info, status |-> status, previous_info |-> previous_info,
     previous_status |-> previous_status, storage |-> storage,
     storage_was_destroyed |-> storage_was_destroyed]

\* TransitionAccount::has_new_contract: the code of the present info when its
\* hash differs from the previous one
HasNewContract(transition) ==
    IF /\ transition.info # None
       /\ transition.info[1].code_hash # KECCAK_EMPTY
       /\ (transition.previous_info = None
            \/ transition.previous_info[1].code_hash # transition.info[1].code_hash)
    THEN Some(<<transition.info[1].code_hash, Bytecode(transition.info[1].code_hash)>>)
    ELSE None

\* TransitionAccount::present_bundle_account
PresentBundleAccount(transition) ==
    BundleAccount(transition.previous_info, transition.info, transition.storage,
                  transition.status)

\* BundleAccount::update_and_create_revert: the account after the transition
\* and the revert of it, None when the transition changes nothing
UpdateAndCreateRevert(this, transition) ==
    IF transition.status \in {"Loaded", "LoadedNotExisting", "LoadedEmptyEIP161"}
    THEN [account |-> this, revert |-> None]
    ELSE IF transition.status = "Destroyed"
    THEN [account |-> [this EXCEPT !.info = None, !.storage = EmptyMap,
                                   !.status = "Destroyed"],
          revert |-> Some(AccountRevert(
                RevertTo(IF this.info = None THEN AccountInfoDefault ELSE this.info[1]),
                [k \in DOMAIN this.storage |->
                    RevertToSlotSome(this.storage[k].present_value)],
                this.status, TRUE))]
    ELSE [account |->
            [this EXCEPT
                !.info = transition.info,
                !.status = transition.status,
                !.storage =
                    IF this.status = "LoadedNotExisting" THEN transition.storage
                    ELSE [k \in DOMAIN this.storage \cup DOMAIN transition.storage |->
                            IF k \in DOMAIN transition.storage
                            THEN IF k \in DOMAIN this.storage
                                 THEN [this.storage[k] EXCEPT !.present_value =
                                        transition.storage[k].present_value]
                                 ELSE transition.storage[k]
                            ELSE this.storage[k]]],
          revert |-> Some(AccountRevert(
                IF this.status = "LoadedNotExisting" THEN DeleteIt
                ELSE IF this.info = transition.info THEN DoNothing
                ELSE RevertTo(IF this.info = None THEN AccountInfoDefault
                              ELSE this.info[1]),
                [k \in {x \in DOMAIN transition.storage :
                            SlotIsChanged(transition.storage[x])} |->
                    RevertToSlotSome(transition.storage[k].original_value)],
                this.status, FALSE))]

\* TransitionAccount::create_revert: the revert against the account as it
\* was before the transition
CreateRevert(transition) ==
    UpdateAndCreateRevert(
        BundleAccount(transition.previous_info, transition.previous_info, EmptyMap,
                      transition.previous_status),
        transition).revert

\* lines 178-195: state updated for one address, and the revert created
ApplyEntry(state, address, transition) ==
    IF address \in DOMAIN state
    THEN LET r == UpdateAndCreateRevert(state[address], transition)
         IN  [state |-> [state EXCEPT ![address] = r.account], revert |-> r.revert]
    ELSE LET present_bundle == PresentBundleAccount(transition)
             revert == CreateRevert(transition)
         IN  [state |-> IF revert # None
                        THEN MapInsert(state, address, present_bundle) ELSE state,
              revert |-> revert]

\* mutant: a revert is appended whatever the retention
RECURSIVE ApplyLoopRetainsAlways(_, _, _, _)
ApplyLoopRetainsAlways(acc, transitions, include_reverts, order) ==
    IF order = <<>> THEN acc
    ELSE LET address == Head(order)
             transition == transitions[address]
             c == HasNewContract(transition)
             e == ApplyEntry(acc.state, address, transition)
         IN  ApplyLoopRetainsAlways(
                [state |-> e.state,
                 contracts |-> IF c # None
                               THEN MapInsert(acc.contracts, c[1][1], c[1][2])
                               ELSE acc.contracts,
                 reverts |-> IF e.revert # None
                             THEN Append(acc.reverts,
                                    [address |-> address, revert |-> e.revert[1]])
                             ELSE acc.reverts],
                transitions, include_reverts, Tail(order))

\* lines 175-204: the loop over the transitions, in their iteration order
RECURSIVE ApplyLoop(_, _, _, _)
ApplyLoop(acc, transitions, include_reverts, order) ==
    IF order = <<>> THEN acc
    ELSE LET address == Head(order)
             transition == transitions[address]
             c == HasNewContract(transition)
             e == ApplyEntry(acc.state, address, transition)
         IN  ApplyLoop(
                [state |-> e.state,
                 contracts |-> IF c # None
                               THEN MapInsert(acc.contracts, c[1][1], c[1][2])
                               ELSE acc.contracts,
                 reverts |-> IF e.revert # None /\ include_reverts
                             THEN Append(acc.reverts,
                                    [address |-> address, revert |-> e.revert[1]])
                             ELSE acc.reverts],
                transitions, include_reverts, Tail(order))

ApplyBlockSubstateAndCreateReverts(self, transitions, retention, order) ==
    LET r == ApplyLoop([state |-> self.state, contracts |-> self.contracts,
                        reverts |-> <<>>],
                       transitions, IncludesReverts(retention), order)
    IN  BundleState(r.state, r.contracts, Append(self.reverts, r.reverts))

(***************************************************************************)
(* BundleState::extend                                                     *)
(***************************************************************************)
\* lines 336-353: every revert of the upper bundle that carries the wipe
\* flag is given the slots of `this` it lacks; the flag is cleared when
\* `this` was destroyed
ExtendWipedReverts(reverts, this) ==
    [i \in 1..Len(reverts) |->
        [j \in 1..Len(reverts[i]) |->
            LET e == reverts[i][j]
                r == e.revert
            IN  IF r.wipe_storage
                THEN [e EXCEPT !.revert =
                        [r EXCEPT
                            !.storage =
                                [k \in DOMAIN r.storage \cup DOMAIN this.storage |->
                                    IF k \in DOMAIN r.storage THEN r.storage[k]
                                    ELSE RevertToSlotSome(this.storage[k].present_value)],
                            !.wipe_storage =
                                IF AccountWasDestroyed(this) THEN FALSE ELSE TRUE]]
                ELSE e]]

\* mutant: the upper account's storage always replaces the lower one's
ExtendAccountReplaceStorage(this, other_account) ==
    [this EXCEPT
        !.storage = other_account.storage,
        !.info = other_account.info,
        !.status = StatusTransition(this.status, other_account.status)]

\* mutant: the status is taken from the upper account as it is
ExtendAccountStatusOverwritten(this, other_account) ==
    [this EXCEPT
        !.storage =
            IF AccountWasDestroyed(other_account)
            THEN other_account.storage
            ELSE [k \in DOMAIN this.storage \cup DOMAIN other_account.storage |->
                    IF k \in DOMAIN other_account.storage
                    THEN IF k \in DOMAIN this.storage
                         THEN [this.storage[k] EXCEPT !.present_value =
                                    other_account.storage[k].present_value]
                         ELSE other_account.storage[k]
                    ELSE this.storage[k]],
        !.info = other_account.info,
        !.status = other_account.status]

\* mutant: the merged account keeps the lower status
ExtendAccountKeepsStatus(this, other_account) ==
    [this EXCEPT
        !.storage =
            IF AccountWasDestroyed(other_account)
            THEN other_account.storage
            ELSE [k \in DOMAIN this.storage \cup DOMAIN other_account.storage |->
                    IF k \in DOMAIN other_account.storage
                    THEN IF k \in DOMAIN this.storage
                         THEN [this.storage[k] EXCEPT !.present_value =
                                    other_account.storage[k].present_value]
                         ELSE other_account.storage[k]
                    ELSE this.storage[k]],
        !.info = other_account.info]

\* mutant: the merged account keeps the lower info
ExtendAccountKeepsInfo(this, other_account) ==
    [this EXCEPT
        !.storage =
            IF AccountWasDestroyed(other_account)
            THEN other_account.storage
            ELSE [k \in DOMAIN this.storage \cup DOMAIN other_account.storage |->
                    IF k \in DOMAIN other_account.storage
                    THEN IF k \in DOMAIN this.storage
                         THEN [this.storage[k] EXCEPT !.present_value =
                                    other_account.storage[k].present_value]
                         ELSE other_account.storage[k]
                    ELSE this.storage[k]],
        !.status = StatusTransition(this.status, other_account.status)]

\* mutant: a slot held by both accounts is taken from the upper account whole
ExtendAccountTakesUpperSlot(this, other_account) ==
    [this EXCEPT
        !.storage =
            IF AccountWasDestroyed(other_account)
            THEN other_account.storage
            ELSE [k \in DOMAIN this.storage \cup DOMAIN other_account.storage |->
                    IF k \in DOMAIN other_account.storage
                    THEN other_account.storage[k]
                    ELSE this.storage[k]],
        !.info = other_account.info,
        !.status = StatusTransition(this.status, other_account.status)]

\* lines 354-369: the occupied entry merged with the upper account
ExtendAccount(this, other_account) ==
    [this EXCEPT
        !.storage =
            IF AccountWasDestroyed(other_account)
            THEN other_account.storage
            ELSE [k \in DOMAIN this.storage \cup DOMAIN other_account.storage |->
                    IF k \in DOMAIN other_account.storage
                    THEN IF k \in DOMAIN this.storage
                         THEN [this.storage[k] EXCEPT !.present_value =
                                    other_account.storage[k].present_value]
                         ELSE other_account.storage[k]
                    ELSE this.storage[k]],
        !.info = other_account.info,
        !.status = StatusTransition(this.status, other_account.status)]

\* the loop over other.state in HashMap iteration order `order`;
\* yields the merged state and the (possibly rewritten) upper reverts
RECURSIVE ExtendLoop(_, _, _, _)
ExtendLoop(state, other_state, other_reverts, order) ==
    IF order = <<>>
    THEN [state |-> state, reverts |-> other_reverts]
    ELSE LET address == Head(order)
             other_account == other_state[address]
         IN  IF address \in DOMAIN state
             THEN ExtendLoop(
                    [state EXCEPT ![address] =
                        ExtendAccount(state[address], other_account)],
                    other_state,
                    ExtendWipedReverts(other_reverts, state[address]),
                    Tail(order))
             ELSE ExtendLoop(MapInsert(state, address, other_account),
                             other_state, other_reverts, Tail(order))

\* mutant: the contracts of the upper bundle replace those of the lower one
ExtendOpContractsReplaced(self, other, order) ==
    LET r == ExtendLoop(self.state, other.state, other.reverts, order)
    IN  BundleState(r.state, other.contracts, self.reverts \o r.reverts)

\* mutant: the reverts of the upper bundle are added to the latest entry
ExtendOpMergesIntoLatest(self, other, order) ==
    LET r == ExtendLoop(self.state, other.state, other.reverts, order)
    IN  BundleState(r.state, MapExtend(self.contracts, other.contracts),
            IF self.reverts = <<>> \/ r.reverts = <<>>
            THEN self.reverts \o r.reverts
            ELSE [self.reverts EXCEPT ![Len(self.reverts)] = @ \o r.reverts[1]])

ExtendOp(self, other, order) ==
    LET r == ExtendLoop(self.state, other.state, other.reverts, order)
    IN  BundleState(r.state,
                    MapExtend(self.contracts, other.contracts),
                    self.reverts \o r.reverts)

(***************************************************************************)
(* BundleState::detach_lower_part_reverts                                  *)
(***************************************************************************)
\* mutant: a count equal to reverts.len() is refused too
DetachLowerPartRevertsOffByOne(self, num_of_detachments) ==
    IF num_of_detachments = 0 \/ num_of_detachments >= Len(self.reverts)
    THEN [bundle |-> self, ret |-> None]
    ELSE [bundle |-> [self EXCEPT !.reverts =
                        SubSeq(self.reverts, num_of_detachments + 1, Len(self.reverts))],
          ret |-> Some(BundleState(EmptyMap, EmptyMap,
                        SubSeq(self.reverts, 1, num_of_detachments)))]

DetachLowerPartReverts(self, num_of_detachments) ==
    IF num_of_detachments = 0 \/ num_of_detachments > Len(self.reverts)
    THEN [bundle |-> self, ret |-> None]
    ELSE [bundle |-> [self EXCEPT !.reverts =
                        SubSeq(self.reverts, num_of_detachments + 1, Len(self.reverts))],
          ret |-> Some(BundleState(EmptyMap, EmptyMap,
                        SubSeq(self.reverts, 1, num_of_detachments)))]

(***************************************************************************)
(* BundleState::revert_latest and BundleState::revert                      *)
(***************************************************************************)
\* mutant: an entry whose address is missing from state is skipped
RECURSIVE ApplyRevertsSkipMissing(_, _)
ApplyRevertsSkipMissing(state, reverts) ==
    IF reverts = <<>>
    THEN [state |-> state, panic |-> "none"]
    ELSE LET address == Head(reverts).address
             revert_account == Head(reverts).revert
         IN  IF address \in DOMAIN state
             THEN LET r == BundleAccountRevert(state[address], revert_account)
                  IN  ApplyRevertsSkipMissing(
                        IF r.remove THEN MapRemove(state, address)
                        ELSE [state EXCEPT ![address] = r.account],
                        Tail(reverts))
             ELSE ApplyRevertsSkipMissing(state, Tail(reverts))

\* lines 414-422: the popped entries applied in order; an address missing
\* from state hits unreachable!()
RECURSIVE ApplyReverts(_, _)
ApplyReverts(state, reverts) ==
    IF reverts = <<>>
    THEN [state |-> state, panic |-> "none"]
    ELSE LET address == Head(reverts).address
             revert_account == Head(reverts).revert
         IN  IF address \in DOMAIN state
             THEN LET r == BundleAccountRevert(state[address], revert_account)
                  IN  ApplyReverts(
                        IF r.remove THEN MapRemove(state, address)
                        ELSE [state EXCEPT ![address] = r.account],
                        Tail(reverts))
             ELSE [state |-> state, panic |-> "unreachable"]

\* mutant: the latest entry is read with last() and stays in reverts
RevertLatestKeepsEntry(self) ==
    IF self.reverts # <<>>
    THEN LET r == ApplyReverts(self.state, self.reverts[Len(self.reverts)])
         IN  [bundle |-> [self EXCEPT !.state = r.state],
              ret |-> TRUE, panic |-> r.panic]
    ELSE [bundle |-> self, ret |-> FALSE, panic |-> "none"]

RevertLatest(self) ==
    IF self.reverts # <<>>
    THEN LET n == Len(self.reverts)
             r == ApplyReverts(self.state, self.reverts[n])
         IN  [bundle |-> [self EXCEPT !.state = r.state,
                                      !.reverts = SubSeq(self.reverts, 1, n - 1)],
              ret |-> TRUE, panic |-> r.panic]
    ELSE [bundle |-> self, ret |-> FALSE, panic |-> "none"]

\* mutant: the count is tested before the transition is reverted, so one
\* transition too few is reverted
RECURSIVE RevertLoopStopsEarly(_, _)
RevertLoopStopsEarly(self, num_transitions) ==
    IF num_transitions - 1 = 0
    THEN [bundle |-> self, panic |-> "none"]
    ELSE LET r == RevertLatest(self)
         IN  IF r.panic # "none" THEN [bundle |-> r.bundle, panic |-> r.panic]
             ELSE IF ~r.ret THEN [bundle |-> r.bundle, panic |-> "none"]
             ELSE RevertLoopStopsEarly(r.bundle, num_transitions - 1)

\* lines 437-443: the while loop of revert; num_transitions is a usize, so
\* a decrement at 0 overflows
RECURSIVE RevertLoop(_, _)
RevertLoop(self, num_transitions) ==
    LET r == RevertLatest(self)
    IN  IF r.panic # "none" THEN [bundle |-> r.bundle, panic |-> r.panic]
        ELSE IF ~r.ret THEN [bundle |-> r.bundle, panic |-> "none"]
        ELSE IF num_transitions = 0
             THEN [bundle |-> r.bundle, panic |-> "overflow"]
        ELSE IF num_transitions - 1 = 0
             THEN [bundle |-> r.bundle, panic |-> "none"]
        ELSE RevertLoop(r.bundle, num_transitions - 1)

\* mutant: no early return for a count of zero
RevertNoZeroCheck(self, num_transitions) == RevertLoop(self, num_transitions)

Revert(self, num_transitions) ==
    IF num_transitions = 0
    THEN [bundle |-> self, panic |-> "none"]
    ELSE RevertLoop(self, num_transitions)

(***************************************************************************)
(* BundleState::take_reverts                                               *)
(***************************************************************************)
\* the elements of a set of numbers as an ascending sequence: the order a
\* sort by key gives a collection whose keys are unique
RECURSIVE SortedSeq(_)
SortedSeq(S) ==
    IF S = {} THEN <<>>
    ELSE LET m == CHOOSE x \in S : \A y \in S : x <= y
         IN  <<m>> \o SortedSeq(S \ {m})

\* lines 216-221: the accounts pushed for one block, in the block's order
RECURSIVE TakeAccounts(_)
TakeAccounts(reverts) ==
    IF reverts = <<>> THEN <<>>
    ELSE LET e == Head(reverts)
         IN  (CASE e.revert.account.tag = "RevertTo" ->
                        << <<e.address, e.revert.account.info>> >>
                [] e.revert.account.tag = "DeleteIt" -> << <<e.address, None>> >>
                [] OTHER -> <<>>)
             \o TakeAccounts(Tail(reverts))

\* lines 222-227: the storage pushed for one block, in the block's order
RECURSIVE TakeStorage(_)
TakeStorage(reverts) ==
    IF reverts = <<>> THEN <<>>
    ELSE LET e == Head(reverts)
             keys == SortedSeq(DOMAIN e.revert.storage)
         IN  (IF e.revert.wipe_storage \/ DOMAIN e.revert.storage # {}
              THEN << <<e.address, e.revert.wipe_storage,
                        [i \in 1..Len(keys) |-> <<keys[i], e.revert.storage[keys[i]]>>]>> >>
              ELSE <<>>)
             \o TakeStorage(Tail(reverts))

SortByAddress(s) == SortSeq(s, LAMBDA a, b : a[1] < b[1])

\* mutant: the accounts are returned in the order of the reverts entry
TakeRevertsUnsorted(self) ==
    [bundle |-> [self EXCEPT !.reverts = <<>>],
     ret |-> [accounts |-> [i \in 1..Len(self.reverts) |->
                                TakeAccounts(self.reverts[i])],
              storage |-> [i \in 1..Len(self.reverts) |->
                                TakeStorage(self.reverts[i])]]]

TakeReverts(self) ==
    [bundle |-> [self EXCEPT !.reverts = <<>>],
     ret |-> [accounts |-> [i \in 1..Len(self.reverts) |->
                                SortByAddress(TakeAccounts(self.reverts[i]))],
              storage |-> [i \in 1..Len(self.reverts) |->
                                TakeStorage(self.reverts[i])]]]

(***************************************************************************)
(* BundleState::into_plain_state_sorted                                    *)
(***************************************************************************)
\* lines 260-273: the keys of the slots pushed to account_storage_changed
PlainChangedKeys(account, omit_changed_check) ==
    {key \in DOMAIN account.storage :
        LET was_destroyed == AccountWasDestroyed(account)
            destroyed_and_not_zero ==
                was_destroyed /\ account.storage[key].present_value # 0
            not_destroyed_and_changed ==
                ~was_destroyed /\ SlotIsChanged(account.storage[key])
        IN  omit_changed_check \/ destroyed_and_not_zero \/ not_destroyed_and_changed}

\* lines 252-255: the accounts pushed, in the iteration order of state
RECURSIVE PlainAccounts(_, _, _)
PlainAccounts(state, omit_changed_check, order) ==
    IF order = <<>> THEN <<>>
    ELSE LET address == Head(order)
             account == state[address]
         IN  (IF omit_changed_check \/ IsInfoChanged(account)
              THEN << <<address, account.info>> >> ELSE <<>>)
             \o PlainAccounts(state, omit_changed_check, Tail(order))

\* lines 257-283: the storage pushed, in the iteration order of state; the
\* slots of one account are sorted by key before they are pushed
RECURSIVE PlainStorage(_, _, _)
PlainStorage(state, omit_changed_check, order) ==
    IF order = <<>> THEN <<>>
    ELSE LET address == Head(order)
             account == state[address]
             keys == SortedSeq(PlainChangedKeys(account, omit_changed_check))
         IN  (IF keys # <<>>
              THEN << <<address,
                        <<StatusWasDestroyed(account.status),
                          [i \in 1..Len(keys) |->
                            <<keys[i], account.storage[keys[i]].present_value>>]>> >> >>
              ELSE <<>>)
             \o PlainStorage(state, omit_changed_check, Tail(order))

\* lines 289-294: the contracts kept, in the iteration order of contracts
RECURSIVE PlainContracts(_, _)
PlainContracts(contracts, corder) ==
    IF corder = <<>> THEN <<>>
    ELSE (IF Head(corder) # KECCAK_EMPTY
          THEN << <<Head(corder), contracts[Head(corder)]>> >> ELSE <<>>)
         \o PlainContracts(contracts, Tail(corder))

\* mutant: the accounts and the storage are returned in iteration order
IntoPlainStateUnsorted(self, omit_changed_check, order, corder) ==
    [accounts |-> PlainAccounts(self.state, omit_changed_check, order),
     storage |-> PlainStorage(self.state, omit_changed_check, order),
     contracts |-> SortByAddress(PlainContracts(self.contracts, corder))]

\* mutant: the contracts are sorted but the empty bytecode is not removed
IntoPlainStateKeepsEmptyCode(self, omit_changed_check, order, corder) ==
    [accounts |-> SortByAddress(PlainAccounts(self.state, omit_changed_check, order)),
     storage |-> SortByAddress(PlainStorage(self.state, omit_changed_check, order)),
     contracts |-> SortByAddress([i \in 1..Len(corder) |->
                        <<corder[i], self.contracts[corder[i]]>>])]

\* order, corder: the iteration orders of the HashMaps state and contracts
IntoPlainStateSorted(self, omit_changed_check, order, corder) ==
    [accounts |-> SortByAddress(PlainAccounts(self.state, omit_changed_check, order)),
     storage |-> SortByAddress(PlainStorage(self.state, omit_changed_check, order)),
     contracts |-> SortByAddress(PlainContracts(self.contracts, corder))]

(***************************************************************************)
(* Inputs: upper bundles built on top of the current bundle.               *)
(***************************************************************************)
\* the account infos of the tests: a plain account and one with code
Info1 == AccountInfo(10, 1, KECCAK_EMPTY)
Info2 == AccountInfo(20, 3, CodeHash)
InfoSet == {Info1, Info2}

\* the backing database: account2 exists there, account1 does not; all
\* storage is zero
DbBasic(a) == IF a = account2 THEN Some(Info1) ELSE None

Perms(S) == {s \in [1..Cardinality(S) -> S] : \A i, j \in DOMAIN s : i # j => s[i] # s[j]}

PrevInfo(L, a) == IF a \in DOMAIN L.state THEN L.state[a].info ELSE DbBasic(a)
PrevOriginal(L, a) ==
    IF a \in DOMAIN L.state THEN L.state[a].original_info ELSE DbBasic(a)
PrevStatus(L, a) ==
    IF a \in DOMAIN L.state THEN L.state[a].status
    ELSE IF DbBasic(a) = None THEN "LoadedNotExisting" ELSE "Loaded"
PrevPresent(L, a, k) ==
    IF a \in DOMAIN L.state /\ k \in DOMAIN L.state[a].storage
    THEN L.state[a].storage[k].present_value ELSE 0
PrevSlotOriginal(L, a, k) ==
    IF a \in DOMAIN L.state /\ k \in DOMAIN L.state[a].storage
    THEN L.state[a].storage[k].original_value ELSE 0
\* the value a write stores: one that differs from the slot's present value
NewValue(L, a, k) == IF PrevPresent(L, a, k) = 10 THEN 15 ELSE 10

\* the account of the upper bundle for address a: destroyed when a = d,
\* otherwise given info and the slots w written
UpperAccount(L, a, d, info, w) ==
    IF a = d
    THEN BundleAccount(PrevOriginal(L, a), None, EmptyMap, "Destroyed")
    ELSE BundleAccount(PrevOriginal(L, a), Some(info),
            [k \in w |-> StorageSlot(PrevSlotOriginal(L, a, k), NewValue(L, a, k))],
            IF PrevInfo(L, a) = None THEN "InMemoryChange" ELSE "Changed")

\* the revert the upper bundle records for address a
UpperRevert(L, a, d, info, w) ==
    IF a = d
    THEN AccountRevert(RevertTo(PrevInfo(L, a)[1]), EmptyMap, PrevStatus(L, a), TRUE)
    ELSE AccountRevert(
            IF PrevInfo(L, a) = None THEN DeleteIt
            ELSE IF PrevInfo(L, a) = Some(info) THEN DoNothing
            ELSE RevertTo(PrevInfo(L, a)[1]),
            [k \in w |-> RevertToSlotSome(PrevPresent(L, a, k))],
            PrevStatus(L, a), FALSE)

\* the upper bundle that changes the addresses of `entries` (in that order
\* in its reverts entry) on top of L
MakeUpper(L, entries, d, info, w) ==
    LET S == {entries[i] : i \in DOMAIN entries}
    IN  BundleState(
            [a \in S |-> UpperAccount(L, a, d, info, w)],
            IF info.code_hash # KECCAK_EMPTY /\ S # {d}
            THEN [h \in {info.code_hash} |-> Bytecode(h)] ELSE EmptyMap,
            << [i \in DOMAIN entries |->
                  [address |-> entries[i],
                   revert |-> UpperRevert(L, entries[i], d, info, w)]] >>)

\* the changes an upper bundle makes: the addresses it changes, in the order
\* of its reverts entry, and the slots it writes in each of them
Changes == {<< <<account1>>, {slot} >>,
            << <<account2, account1>>, {slot, slot + 1} >>}

\* an upper bundle changes accounts that exist in L or are new to it; an
\* account L holds as destroyed (info None) is left alone
OnTop(L) ==
    {MakeUpper(L, c[1], d, info, c[2]) :
        c \in {x \in Changes : \A i \in DOMAIN x[1] :
                    x[1][i] \in DOMAIN L.state => L.state[x[1][i]].info # None},
        d \in {0} \cup {a \in {account1} : PrevInfo(L, a) # None},
        info \in InfoSet}

Uppers(L) == OnTop(L) \cup {BundleStateDefault}

(***************************************************************************)
(* The bundle's life: built from the empty bundle by extends, reverted,    *)
(* detached, drained.                                                      *)
(***************************************************************************)
Init ==
    /\ bundle = BundleStateDefault
    /\ detached = None
    /\ taken = None
    /\ op = "default"
    /\ arg = 0
    /\ ret = FALSE
    /\ panicked = "none"
    /\ before = BundleStateDefault
    /\ upper = BundleStateDefault
    /\ snaps = <<>>
    /\ undone = <<>>
    /\ streak = 0
    /\ recorded = 0
    /\ evm = None
    /\ machine = None
    /\ sstores = None

\* the last n elements of s, latest first
PoppedOf(s, n) == [i \in 1..n |-> s[Len(s) + 1 - i]]

Extend ==
    /\ panicked = "none"
    /\ \E other \in Uppers(bundle) : \E order \in Perms(DOMAIN other.state) :
        /\ recorded + Len(other.reverts) <= MaxReverts
        /\ bundle' = ExtendOp(bundle, other, order)
        /\ upper' = other
        /\ snaps' = snaps \o [i \in 1..Len(other.reverts) |->
                                [lower |-> bundle, upper |-> other,
                                 result |-> ExtendOp(bundle, other, order)]]
        /\ recorded' = recorded + Len(other.reverts)
    /\ before' = bundle
    /\ op' = "extend"
    /\ undone' = <<>>
    /\ streak' = 0
    /\ detached' = None
    /\ taken' = None
    /\ UNCHANGED <<sstores, machine, evm, arg, ret, panicked>>

DoRevertLatest ==
    /\ panicked = "none"
    /\ LET r == RevertLatest(bundle)
       IN  /\ bundle' = r.bundle
           /\ ret' = r.ret
           /\ panicked' = r.panic
           /\ undone' = PoppedOf(snaps, IF r.ret THEN 1 ELSE 0)
           /\ snaps' = SubSeq(snaps, 1, Len(snaps) - (IF r.ret THEN 1 ELSE 0))
           /\ streak' = IF r.ret THEN streak + 1 ELSE streak
    /\ before' = bundle
    /\ op' = "revert_latest"
    /\ detached' = None
    /\ taken' = None
    /\ upper' = BundleStateDefault
    /\ UNCHANGED <<sstores, machine, evm, arg, recorded>>

DoRevert ==
    /\ panicked = "none"
    /\ \E n \in 0..MaxN :
        LET r == Revert(bundle, n)
            popped == Len(bundle.reverts) - Len(r.bundle.reverts)
        IN  /\ bundle' = r.bundle
            /\ panicked' = r.panic
            /\ arg' = n
            /\ undone' = PoppedOf(snaps, popped)
            /\ snaps' = SubSeq(snaps, 1, Len(snaps) - popped)
    /\ before' = bundle
    /\ op' = "revert"
    /\ streak' = 0
    /\ detached' = None
    /\ taken' = None
    /\ upper' = BundleStateDefault
    /\ UNCHANGED <<sstores, machine, evm, ret, recorded>>

DoDetachLowerPartReverts ==
    /\ panicked = "none"
    /\ \E n \in 0..MaxN :
        LET r == DetachLowerPartReverts(bundle, n)
            gone == Len(bundle.reverts) - Len(r.bundle.reverts)
        IN  /\ bundle' = r.bundle
            /\ detached' = r.ret
            /\ arg' = n
            /\ snaps' = SubSeq(snaps, gone + 1, Len(snaps))
    /\ before' = bundle
    /\ op' = "detach_lower_part_reverts"
    /\ undone' = <<>>
    /\ streak' = 0
    /\ taken' = None
    /\ upper' = BundleStateDefault
    /\ UNCHANGED <<sstores, machine, evm, ret, panicked, recorded>>

DoTakeReverts ==
    /\ panicked = "none"
    /\ LET r == TakeReverts(bundle)
       IN  /\ bundle' = r.bundle
           /\ taken' = Some(r.ret)
    /\ before' = bundle
    /\ op' = "take_reverts"
    /\ snaps' = <<>>
    /\ undone' = <<>>
    /\ streak' = 0
    /\ detached' = None
    /\ upper' = BundleStateDefault
    /\ UNCHANGED <<sstores, machine, evm, arg, ret, panicked, recorded>>

\* a consumer calls revert_latest on the bundle detach_lower_part_reverts
\* has just returned
DoRevertLatestDetached ==
    /\ panicked = "none"
    /\ detached # None
    /\ LET r == RevertLatest(detached[1])
       IN  /\ detached' = Some(r.bundle)
           /\ ret' = r.ret
           /\ panicked' = r.panic
    /\ before' = detached[1]
    /\ op' = "revert_latest_detached"
    /\ undone' = <<>>
    /\ streak' = 0
    /\ taken' = None
    /\ upper' = BundleStateDefault
    /\ UNCHANGED <<sstores, machine, evm, bundle, arg, snaps, recorded>>

Next ==
    \/ Extend
    \/ DoRevertLatest
    \/ DoRevert
    \/ DoDetachLowerPartReverts
    \/ DoTakeReverts
    \/ DoRevertLatestDetached

Spec == Init /\ [][Next]_vars

(***************************************************************************)
(* The bundle's life with transitions applied to it.                       *)
(***************************************************************************)
\* the transition of address a on top of L: destroyed when a = d, loaded
\* without a change when a = t, otherwise given info and the slots w written
MakeTransition(L, a, d, t, info, w) ==
    IF a = d
    THEN TransitionAccount(None, "Destroyed", PrevInfo(L, a), PrevStatus(L, a),
                           EmptyMap, TRUE)
    ELSE IF a = t
    THEN TransitionAccount(PrevInfo(L, a),
                           IF PrevInfo(L, a) = None THEN "LoadedNotExisting" ELSE "Loaded",
                           PrevInfo(L, a), PrevStatus(L, a), EmptyMap, FALSE)
    ELSE TransitionAccount(Some(info),
            IF PrevInfo(L, a) = None \/ PrevStatus(L, a) = "InMemoryChange"
            THEN "InMemoryChange" ELSE "Changed",
            PrevInfo(L, a), PrevStatus(L, a),
            [k \in w |-> StorageSlot(PrevPresent(L, a, k), NewValue(L, a, k))],
            FALSE)

\* TransitionState: the transitions of one block on top of L, by address
TransitionsOn(L) ==
    {[a \in {c[1][i] : i \in DOMAIN c[1]} |-> MakeTransition(L, a, d, t, info, c[2])] :
        c \in {x \in Changes : \A i \in DOMAIN x[1] :
                    x[1][i] \in DOMAIN L.state => L.state[x[1][i]].info # None},
        d \in {0} \cup {a \in {account1} : PrevInfo(L, a) # None},
        t \in {0, account2},
        info \in InfoSet}

BundleRetention == {"PlainState", "Reverts"}

DoApply ==
    /\ panicked = "none"
    /\ recorded + 1 <= MaxReverts
    /\ \E transitions \in TransitionsOn(bundle), retention \in BundleRetention :
        \E order \in Perms(DOMAIN transitions) :
            LET result == ApplyBlockSubstateAndCreateReverts(
                                bundle, transitions, retention, order)
                alone == ApplyBlockSubstateAndCreateReverts(
                                BundleStateDefault, transitions, retention, order)
            IN  /\ bundle' = result
                /\ taken' = Some([transitions |-> transitions, retention |-> retention])
                /\ upper' = alone
                /\ snaps' = Append(snaps, [lower |-> bundle, upper |-> alone,
                                           result |-> result, retention |-> retention])
    /\ recorded' = recorded + 1
    /\ before' = bundle
    /\ op' = "apply_block_substate_and_create_reverts"
    /\ undone' = <<>>
    /\ streak' = 0
    /\ detached' = None
    /\ UNCHANGED <<sstores, machine, evm, arg, ret, panicked>>

NextApply ==
    \/ DoApply
    \/ Extend
    \/ DoRevertLatest
    \/ DoRevert
    \/ DoDetachLowerPartReverts

SpecApply == Init /\ [][NextApply]_vars

\* the bundle's life when every apply retains its reverts and no reverts
\* are detached
DoApplyRetained ==
    /\ DoApply
    /\ taken'[1].retention = "Reverts"

NextRetained ==
    \/ DoApplyRetained
    \/ Extend
    \/ DoRevertLatest
    \/ DoRevert

SpecRetained == Init /\ [][NextRetained]_vars

(***************************************************************************)
(* One extend of a given lower bundle with a given upper bundle: the       *)
(* bundles of the tests, with the status of account1 set as the tests do.  *)
(***************************************************************************)
test_bundle1 ==
    BundleStateNew(
        [a \in {account1, account2} |->
            IF a = account1
            THEN [original |-> None, present |-> Some(AccountInfo(10, 1, KECCAK_EMPTY)),
                  storage |-> [k \in {slot} |-> <<0, 10>>]]
            ELSE [original |-> None, present |-> Some(AccountInfo(10, 1, KECCAK_EMPTY)),
                  storage |-> EmptyMap]],
        << << [address |-> account1, account |-> Some(None),
               storage |-> [k \in {slot} |-> 0]],
              [address |-> account2, account |-> Some(None), storage |-> EmptyMap] >> >>,
        EmptyMap)

test_bundle2 ==
    BundleStateNew(
        [a \in {account1} |->
            [original |-> None, present |-> Some(AccountInfo(20, 3, KECCAK_EMPTY)),
             storage |-> [k \in {slot} |-> <<0, 15>>]]],
        << << [address |-> account1,
               account |-> Some(Some(AccountInfo(10, 1, KECCAK_EMPTY))),
               storage |-> [k \in {slot} |-> 10]] >> >>,
        EmptyMap)

\* b.state.get_mut(&address).unwrap().status = status
SetStatus(b, address, status) == [b EXCEPT !.state[address].status = status]

\* the wipe_storage flag of every revert of b set to wipe
SetWipe(b, wipe) ==
    [b EXCEPT !.reverts =
        [i \in DOMAIN b.reverts |->
            [j \in DOMAIN b.reverts[i] |->
                [b.reverts[i][j] EXCEPT !.revert.wipe_storage = wipe]]]]

GivenLowers ==
    {BundleStateDefault} \cup {SetStatus(test_bundle1, account1, s) : s \in AccountStatus}

GivenUppers ==
    {BundleStateDefault} \cup
    {SetWipe(SetStatus(test_bundle2, account1, s), w) : s \in AccountStatus, w \in BOOLEAN}

InitGiven ==
    /\ bundle \in GivenLowers
    /\ upper \in GivenUppers
    /\ detached = None
    /\ taken = None
    /\ op = "new"
    /\ arg = 0
    /\ ret = FALSE
    /\ panicked = "none"
    /\ before = BundleStateDefault
    /\ snaps = <<>>
    /\ undone = <<>>
    /\ streak = 0
    /\ recorded = 0
    /\ evm = None
    /\ machine = None
    /\ sstores = None

ExtendGiven ==
    /\ op = "new"
    /\ \E order \in Perms(DOMAIN upper.state) :
        bundle' = ExtendOp(bundle, upper, order)
    /\ before' = bundle
    /\ op' = "extend"
    /\ UNCHANGED <<sstores, machine, evm, upper, detached, taken, arg, ret, panicked, snaps, undone,
                   streak, recorded>>

SpecExtend == InitGiven /\ [][ExtendGiven]_vars

(***************************************************************************)
(* One extend of a lower bundle with an upper bundle that both hold        *)
(* account1 and account2.                                                  *)
(***************************************************************************)
\* the lower bundle: account1 with two slots and account2 with one, of the
\* statuses s1 and s2
LowerOfTwo(s1, s2) ==
    SetStatus(SetStatus(
        BundleStateNew(
            [a \in {account1, account2} |->
                IF a = account1
                THEN [original |-> None, present |-> Some(AccountInfo(10, 1, KECCAK_EMPTY)),
                      storage |-> (slot :> <<0, 10>>) @@ (slot + 1 :> <<0, 11>>)]
                ELSE [original |-> None, present |-> Some(AccountInfo(10, 1, KECCAK_EMPTY)),
                      storage |-> (slot + 1 :> <<0, 21>>)]],
            << << [address |-> account1, account |-> Some(None),
                   storage |-> (slot :> 0) @@ (slot + 1 :> 0)],
                  [address |-> account2, account |-> Some(None),
                   storage |-> (slot + 1 :> 0)] >> >>,
            EmptyMap),
        account1, s1), account2, s2)

\* the wipe_storage flag of the reverts of address in b set to wipe
SetWipeOf(b, address, wipe) ==
    [b EXCEPT !.reverts =
        [i \in DOMAIN b.reverts |->
            [j \in DOMAIN b.reverts[i] |->
                IF b.reverts[i][j].address = address
                THEN [b.reverts[i][j] EXCEPT !.revert.wipe_storage = wipe]
                ELSE b.reverts[i][j]]]]

\* the upper bundle, built on the lower one: account1 with the first slot
\* written, account2 with a new slot; d1 and d2 tell which of them the upper
\* bundle destroyed before (status DestroyedChanged, revert with the wipe
\* flag)
UpperOfTwo(d1, d2) ==
    LET b == BundleStateNew(
                [a \in {account1, account2} |->
                    IF a = account1
                    THEN [original |-> Some(AccountInfo(10, 1, KECCAK_EMPTY)),
                          present |-> Some(AccountInfo(20, 3, KECCAK_EMPTY)),
                          storage |-> (slot :> <<10, 15>>)]
                    ELSE [original |-> Some(AccountInfo(10, 1, KECCAK_EMPTY)),
                          present |-> Some(AccountInfo(30, 1, KECCAK_EMPTY)),
                          storage |-> (slot :> <<0, 25>>)]],
                << << [address |-> account1,
                       account |-> Some(Some(AccountInfo(10, 1, KECCAK_EMPTY))),
                       storage |-> (slot :> 10)],
                      [address |-> account2,
                       account |-> Some(Some(AccountInfo(10, 1, KECCAK_EMPTY))),
                       storage |-> (slot :> 0)] >> >>,
                EmptyMap)
        status(d) == IF d THEN "DestroyedChanged" ELSE "Changed"
    IN  SetWipeOf(SetWipeOf(SetStatus(SetStatus(b, account1, status(d1)),
                                      account2, status(d2)),
                            account1, d1), account2, d2)

InitTwo ==
    /\ bundle \in {LowerOfTwo(s1, s2) : s1, s2 \in AccountStatus}
    /\ upper \in {UpperOfTwo(d1, d2) : d1, d2 \in BOOLEAN}
    /\ detached = None
    /\ taken = None
    /\ op = "new"
    /\ arg = 0
    /\ ret = FALSE
    /\ panicked = "none"
    /\ before = BundleStateDefault
    /\ snaps = <<>>
    /\ undone = <<>>
    /\ streak = 0
    /\ recorded = 0
    /\ evm = None
    /\ machine = None
    /\ sstores = None

SpecExtendTwo == InitTwo /\ [][ExtendGiven]_vars

(***************************************************************************)
(* into_plain_state_sorted of a bundle made by BundleState::new.           *)
(***************************************************************************)
\* code hashes of the contracts of a bundle: the empty hash and two others
PlainHashes == Hashes \cup {CodeHash + 1}

\* the (original, present, storage) an account is made of
PlainShapes ==
    {[original |-> None, present |-> Some(Info1), storage |-> EmptyMap],
     [original |-> Some(Info1), present |-> Some(Info1),
      storage |-> [k \in Keys |-> IF k = slot THEN <<0, 10>> ELSE <<10, 10>>]],
     [original |-> Some(Info1), present |-> Some(Info2),
      storage |-> [k \in Keys |-> IF k = slot THEN <<10, 15>> ELSE <<0, 10>>]],
     [original |-> Some(Info2), present |-> None,
      storage |-> [k \in {slot} |-> <<10, 0>>]],
     [original |-> None, present |-> Some(Info2),
      storage |-> [k \in Keys |-> <<10, 10>>]]}

PlainBundles ==
    {SetStatus(BundleStateNew(st, <<>>, [h \in H |-> Bytecode(h)]), account1, status) :
        st \in {x \in UNION {[S -> PlainShapes] : S \in SUBSET Addr} : account1 \in DOMAIN x},
        H \in SUBSET PlainHashes,
        status \in {"Changed", "Destroyed"}}
    \cup
    {BundleStateNew(st, <<>>, [h \in H |-> Bytecode(h)]) :
        st \in {x \in UNION {[S -> PlainShapes] : S \in SUBSET Addr} : account1 \notin DOMAIN x},
        H \in SUBSET PlainHashes}

InitPlain ==
    /\ bundle \in PlainBundles
    /\ upper = BundleStateDefault
    /\ detached = None
    /\ taken = None
    /\ op = "new"
    /\ arg = 0
    /\ ret = FALSE
    /\ panicked = "none"
    /\ before = BundleStateDefault
    /\ snaps = <<>>
    /\ undone = <<>>
    /\ streak = 0
    /\ recorded = 0
    /\ evm = None
    /\ machine = None
    /\ sstores = None

\* ret holds omit_changed_check, taken the changeset returned
DoIntoPlainStateSorted ==
    /\ op = "new"
    /\ \E omit_changed_check \in BOOLEAN,
          order \in Perms(DOMAIN bundle.state),
          corder \in Perms(DOMAIN bundle.contracts) :
        /\ taken' = Some(IntoPlainStateSorted(bundle, omit_changed_check, order, corder))
        /\ ret' = omit_changed_check
    /\ before' = bundle
    /\ op' = "into_plain_state_sorted"
    /\ UNCHANGED <<sstores, machine, evm, bundle, upper, detached, arg, panicked, snaps, undone,
                   streak, recorded>>

SpecPlain == InitPlain /\ [][DoIntoPlainStateSorted]_vars

(***************************************************************************)
(* EVM driver (src/evm_impl.rs): hard-fork spec, gas, subroutine.          *)
(***************************************************************************)
\* the spec ids of the model, in the order of their activation
SpecIdOrder ==
    <<"FRONTIER", "SPURIOUS_DRAGON", "BYZANTINE", "ISTANBUL", "BERLIN", "LONDON">>
SpecIds == {SpecIdOrder[i] : i \in DOMAIN SpecIdOrder}
SpecRank(id) == CHOOSE i \in DOMAIN SpecIdOrder : SpecIdOrder[i] = id

\* Spec::enabled(spec_id) of the spec SPEC
SpecEnabled(SPEC, spec_id) == SpecRank(SPEC) >= SpecRank(spec_id)

\* opcode::gas constants
TRANSACTION_ZERO_DATA == 4
TRANSACTION_NON_ZERO_DATA_INIT == 16
TRANSACTION_NON_ZERO_DATA_FRONTIER == 68
ACCESS_LIST_ADDRESS == 2400
ACCESS_LIST_STORAGE_KEY == 1900
CODEDEPOSIT == 200

\* machine::CALL_STACK_LIMIT, scaled down
CALL_STACK_LIMIT == 1
\* calls and creates one transaction's code issues
MaxSpawn == 2
\* storage writes one transaction's code makes
MaxSstore == 1

\* ExitReason: its class and the reason within the class
Exit(class, reason) == [class |-> class, reason |-> reason]
IsSucceed(exit_reason) == exit_reason.class = "Succeed"

\* Gas of machine.rs
GasNew(limit) == [limit |-> limit, used |-> 0, refunded |-> 0]
GasRemaining(gas) == gas.limit - gas.used
GasSpend(gas) == gas.used
\* Gas::record_cost: false, gas untouched, when the cost does not fit
RecordCost(gas, cost) ==
    IF gas.used + cost > gas.limit
    THEN [ok |-> FALSE, gas |-> gas]
    ELSE [ok |-> TRUE, gas |-> [gas EXCEPT !.used = @ + cost]]
\* Gas::reimburse_unspend: the gas a frame left is given back after Succeed
\* and Revert, with its refund after Succeed
ReimburseUnspend(gas, exit_reason, other) ==
    IF exit_reason.class = "Succeed"
    THEN [gas EXCEPT !.used = @ - GasRemaining(other),
                     !.refunded = @ + other.refunded]
    ELSE IF exit_reason.class = "Revert"
    THEN [gas EXCEPT !.used = @ - GasRemaining(other)]
    ELSE gas

\* EVMImpl::new (lines 141-156): a fresh subroutine; the caller's balance is
\* the one of the database (db_balance, which no step changes).  journal: the state mutations in force, cps:
\* every checkpoint created (where the journal stood, how it was closed),
\* stack: the call_inner / create_inner activations whose machine runs
EVMNew(caller_balance) ==
    [pc |-> "new", tx |-> None, gas |-> GasNew(0),
     depth |-> 0, journal |-> <<>>, cps |-> <<>>, loaded |-> {},
     nonce |-> 0, balance |-> caller_balance, db_balance |-> caller_balance,
     coinbase |-> 0,
     stack |-> <<>>, spawned |-> 0, sstores |-> 0,
     last |-> None, result |-> None]

\* SubRoutine::create_checkpoint; the checkpoint is the index into cps
CreateCheckpoint(e, kind) ==
    [e EXCEPT !.depth = @ + 1,
              !.cps = Append(@, [kind |-> kind, journal_i |-> Len(e.journal),
                                 closes |-> <<>>])]

\* SubRoutine::checkpoint_commit
CheckpointCommit(e, checkpoint) ==
    [e EXCEPT !.depth = @ - 1,
              !.cps[checkpoint].closes = Append(@, "commit")]

\* SubRoutine::checkpoint_revert
CheckpointRevert(e, checkpoint) ==
    [e EXCEPT !.depth = @ - 1,
              !.journal = SubSeq(@, 1, e.cps[checkpoint].journal_i),
              !.cps[checkpoint].closes = Append(@, "revert")]

\* SubRoutine::finalize: the State, the accounts the subroutine loaded
SubRoutineFinalize(e) ==
    {[address |-> "caller", nonce |-> e.nonce, balance |-> e.balance,
      changes |-> e.journal]}
    \cup {[address |-> a, nonce |-> 0,
           balance |-> IF a = "coinbase" THEN e.coinbase ELSE 0,
           changes |-> <<>>] : a \in e.loaded \ {"caller"}}

(***************************************************************************)
(* EVM driver: call_inner and create_inner.                                *)
(***************************************************************************)
\* code.len() limit of create_inner (0x6000), scaled down
MAX_CODE_LEN == 2

Push(e, frame) == [e EXCEPT !.stack = Append(@, frame)]
Pop(e) == [e EXCEPT !.stack = SubSeq(@, 1, Len(@) - 1)]
Top(e) == e.stack[Len(e.stack)]
Journal(e, entry) == [e EXCEPT !.journal = Append(@, entry)]

\* Keccak256::digest: a hash that tells any two byte strings apart
Keccak(bytes) == <<"keccak", bytes>>

\* the subroutine as a call_inner / create_inner finds it
AtEntry(e) == [journal |-> e.journal, depth |-> e.depth]

\* what call_inner / create_inner returned last: the checkpoint it created
\* (0: none), the exit path, journal and depth of the subroutine at its entry
\* and at its return, the frames around it, what set_code stored, how its
\* machine ended if one ran;
\* create_inner returns the created address once it has computed it, which
\* is on every path that created a checkpoint
InnerReturn(e, kind, checkpoint, exit_reason, path, gas, out, at_entry) ==
    [e EXCEPT !.last = Some([kind |-> kind, checkpoint |-> checkpoint,
                             address |-> IF kind = "create" /\ checkpoint # 0
                                         THEN Some("created") ELSE None,
                             exit |-> exit_reason, path |-> path, gas |-> gas,
                             out |-> out, journal_before |-> at_entry.journal,
                             journal_after |-> e.journal,
                             depth_before |-> at_entry.depth,
                             depth_after |-> e.depth,
                             frames |-> Len(e.stack), stored |-> None,
                             machine |-> None])]

\* how the machine of the call_inner / create_inner that returns ended
MachineRan(e, exit_reason, left, out) ==
    [e EXCEPT !.last[1].machine =
        Some([exit |-> exit_reason, left |-> left, out |-> out])]

\* SubRoutine::set_code called by the create_inner that returns
SetCode(e, code, code_hash) ==
    [Journal(e, "code") EXCEPT
        !.last[1].stored = Some([code |-> code, code_hash |-> code_hash]),
        !.last[1].journal_after = Append(e.journal, "code")]

\* mutant: call_inner lets one more level through
CallTooDeepOneMore(depth) == depth > CALL_STACK_LIMIT + 2

\* the depth check of call_inner (line 337), on the depth after its
\* checkpoint was created
CallTooDeep(depth) == depth > CALL_STACK_LIMIT + 1

\* the depth check of create_inner (line 246), on the depth it is entered at
CreateTooDeep(depth) == depth > CALL_STACK_LIMIT

\* call_inner up to machine.run (lines 326-393).  transfer: "none", or the
\* outcome of subroutine.transfer ("fails", "ok"); precompile: None when
\* code_address is no precompile, else the outcome of the precompile
CallInner(e, transfer, precompile, gas_limit) ==
    LET gas == GasNew(gas_limit)
        at_entry == AtEntry(e)
        e1 == CreateCheckpoint(e, "call")
        checkpoint == Len(e1.cps)
    IN  IF CallTooDeep(e1.depth)
        THEN InnerReturn(e1, "call", checkpoint, Exit("Revert", "CallTooDeep"),
                         "depth", gas, <<>>, at_entry)
        ELSE IF transfer = "fails"
        THEN InnerReturn(CheckpointRevert(e1, checkpoint), "call", checkpoint,
                         Exit("Error", "OutOfFund"), "transfer", gas, <<>>, at_entry)
        ELSE LET e2 == IF transfer = "ok" THEN Journal(e1, "transfer") ELSE e1
             IN  IF precompile # None
                 THEN IF precompile[1].ok
                      THEN LET r == RecordCost(gas, precompile[1].cost)
                           IN  IF r.ok
                               THEN InnerReturn(CheckpointCommit(Journal(e2, "log"), checkpoint),
                                        "call", checkpoint,
                                        Exit("Succeed", "Returned"), "precompile",
                                        r.gas, precompile[1].output, at_entry)
                               ELSE InnerReturn(CheckpointRevert(e2, checkpoint),
                                        "call", checkpoint,
                                        Exit("Error", "OutOfGas"), "precompile_gas",
                                        r.gas, <<>>, at_entry)
                      ELSE InnerReturn(CheckpointRevert(e2, checkpoint),
                                "call", checkpoint,
                                Exit("Error", "Precompile"), "precompile_error",
                                gas, <<>>, at_entry)
                 ELSE Push(e2, [kind |-> "call", checkpoint |-> checkpoint,
                                gas_limit |-> gas_limit, entry |-> at_entry,
                                depth |-> e2.depth, code_hash |-> None])

\* mutant: the checkpoint is committed whatever the machine's exit reason
CallInnerExitCommitsAlways(e, exit_reason, left, refunded, out) ==
    LET frame == Top(e)
    IN  MachineRan(InnerReturn(CheckpointCommit(Pop(e), frame.checkpoint),
            "call", frame.checkpoint, exit_reason, "machine",
            [GasNew(frame.gas_limit) EXCEPT !.used = frame.gas_limit - left,
                                            !.refunded = refunded],
            out, frame.entry), exit_reason, left, out)

\* mutant: only a machine that succeeded has its return value passed on
CallInnerExitDropsRevertData(e, exit_reason, left, refunded, out) ==
    LET frame == Top(e)
        e1 == Pop(e)
        e2 == IF IsSucceed(exit_reason)
              THEN CheckpointCommit(e1, frame.checkpoint)
              ELSE CheckpointRevert(e1, frame.checkpoint)
    IN  MachineRan(InnerReturn(e2, "call", frame.checkpoint, exit_reason, "machine",
            [GasNew(frame.gas_limit) EXCEPT !.used = frame.gas_limit - left,
                                            !.refunded = refunded],
            IF IsSucceed(exit_reason) THEN out ELSE <<>>, frame.entry),
            exit_reason, left, out)

\* call_inner after machine.run (lines 394-404): the machine of the top
\* frame ended with exit_reason, `left` gas remaining, the refund counter
\* refunded and return value out
CallInnerExit(e, exit_reason, left, refunded, out) ==
    LET frame == Top(e)
        e1 == Pop(e)
        e2 == IF IsSucceed(exit_reason)
              THEN CheckpointCommit(e1, frame.checkpoint)
              ELSE CheckpointRevert(e1, frame.checkpoint)
    IN  MachineRan(InnerReturn(e2, "call", frame.checkpoint, exit_reason, "machine",
            [GasNew(frame.gas_limit) EXCEPT !.used = frame.gas_limit - left,
                                            !.refunded = refunded],
            out, frame.entry), exit_reason, left, out)

\* mutant: the collision leaves the account created and the checkpoint
\* committed
CreateCollisionKeepsAccount(e, checkpoint, gas, at_entry) ==
    InnerReturn(CheckpointCommit(Journal(e, "new_contract"), checkpoint),
                "create", checkpoint, Exit("Error", "CreateCollision"),
                "collision", gas, <<>>, at_entry)

\* create_inner, new_contract_acc refused the address (lines 262-269)
CreateCollision(e, checkpoint, gas, at_entry) ==
    InnerReturn(CheckpointRevert(e, checkpoint), "create", checkpoint,
                Exit("Error", "CreateCollision"), "collision", gas, <<>>,
                at_entry)

\* create_inner up to machine.run (lines 234-294).  balance_ok: the caller's
\* balance covers value; collision: new_contract_acc refuses the address
CreateInner(e, SPEC, init_code, balance_ok, collision, transfer, gas_limit) ==
    LET gas == GasNew(gas_limit)
        at_entry == AtEntry(e)
        code_hash == Keccak(init_code)
    IN  IF CreateTooDeep(e.depth)
        THEN InnerReturn(e, "create", 0, Exit("Revert", "CallTooDeep"),
                         "depth", gas, <<>>, at_entry)
        ELSE IF ~balance_ok
        THEN InnerReturn(e, "create", 0, Exit("Revert", "OutOfFund"),
                         "balance", gas, <<>>, at_entry)
        ELSE LET e1 == Journal([e EXCEPT !.nonce =
                                    IF e.stack = <<>> THEN @ + 1 ELSE @], "nonce")
                 e2 == CreateCheckpoint(e1, "create")
                 checkpoint == Len(e2.cps)
             IN  IF collision
                 THEN CreateCollision(e2, checkpoint, gas, at_entry)
                 ELSE LET e3 == Journal(e2, "new_contract")
                      IN  IF transfer = "fails"
                          THEN InnerReturn(CheckpointRevert(e3, checkpoint),
                                    "create", checkpoint,
                                    Exit("Error", "OutOfFund"), "transfer",
                                    gas, <<>>, at_entry)
                          ELSE LET e4 == Journal(e3, "transfer")
                                   e5 == IF SpecEnabled(SPEC, "ISTANBUL")
                                         THEN Journal(e4, "nonce_created") ELSE e4
                               IN  Push(e5, [kind |-> "create",
                                             checkpoint |-> checkpoint,
                                             gas_limit |-> gas_limit,
                                             entry |-> at_entry,
                                             depth |-> e5.depth,
                                             code_hash |-> code_hash])

\* mutant: the code is stored although its deposit cannot be paid
CodeDepositUnpaid(e, frame, machine_gas, code) ==
    LET r == RecordCost(machine_gas, Len(code) * CODEDEPOSIT)
    IN  SetCode(InnerReturn(CheckpointCommit(e, frame.checkpoint), "create",
                    frame.checkpoint, Exit("Succeed", "Returned"), "machine",
                    r.gas, <<>>, frame.entry),
                code, frame.code_hash)

\* create_inner, the code deposit (lines 306-317): the gas for the code the
\* machine returned is recorded, the code stored if the gas fits
CodeDeposit(e, frame, machine_gas, code) ==
    LET gas_for_code == Len(code) * CODEDEPOSIT
        r == RecordCost(machine_gas, gas_for_code)
    IN  IF ~r.ok
        THEN InnerReturn(CheckpointRevert(e, frame.checkpoint), "create",
                 frame.checkpoint, Exit("Error", "OutOfGas"), "code_deposit",
                 r.gas, <<>>, frame.entry)
        ELSE SetCode(InnerReturn(CheckpointCommit(e, frame.checkpoint), "create",
                         frame.checkpoint, Exit("Succeed", "Returned"), "machine",
                         r.gas, <<>>, frame.entry),
                     code, frame.code_hash)

\* create_inner after machine.run (lines 295-322): code_len is the length of
\* the machine's return value
CreateInnerExit(e, SPEC, exit_reason, left, refunded, out) ==
    LET frame == Top(e)
        e1 == Pop(e)
        machine_gas == [GasNew(frame.gas_limit) EXCEPT !.used = frame.gas_limit - left,
                                                       !.refunded = refunded]
        code_len == Len(out)
    IN  MachineRan(
            IF IsSucceed(exit_reason)
            THEN IF SpecEnabled(SPEC, "ISTANBUL") /\ code_len > MAX_CODE_LEN
                 THEN InnerReturn(CheckpointRevert(e1, frame.checkpoint),
                          "create", frame.checkpoint,
                          Exit("Error", "CreateContractLimit"), "code_limit",
                          machine_gas, <<>>, frame.entry)
                 ELSE CodeDeposit(e1, frame, machine_gas, out)
            ELSE InnerReturn(CheckpointRevert(e1, frame.checkpoint), "create",
                     frame.checkpoint, exit_reason, "machine", machine_gas, out,
                     frame.entry),
            exit_reason, left, out)

(***************************************************************************)
(* EVM driver: the transaction (call, create, initialization, finalize).   *)
(***************************************************************************)
\* addresses of the precompiles
PrecompileAddresses == {"precompile"}
\* State::new(), State::default(): the empty map
EmptyState == {}
BaseTransactCost == 21000
CreateTransactCost == 53000

RECURSIVE AccessedSlots(_)
AccessedSlots(access_list) ==
    IF access_list = <<>> THEN 0
    ELSE Len(access_list[1].slots) + AccessedSlots(Tail(access_list))

\* initialization (lines 184-232): loads the precompiles and the access
\* list, returns the intrinsic gas
Initialization(e, SPEC, input, is_create, access_list) ==
    LET zero_data_len == Cardinality({i \in DOMAIN input : input[i] = 0})
        non_zero_data_len == Len(input) - zero_data_len
        accessed_accounts == Len(access_list)
        accessed_slots == AccessedSlots(access_list)
        transact == IF is_create
                    THEN IF SpecEnabled(SPEC, "ISTANBUL")
                         THEN CreateTransactCost ELSE BaseTransactCost
                    ELSE BaseTransactCost
        gas_transaction_non_zero_data ==
            IF SpecEnabled(SPEC, "BERLIN") THEN TRANSACTION_NON_ZERO_DATA_INIT
            ELSE IF SpecEnabled(SPEC, "FRONTIER") THEN TRANSACTION_NON_ZERO_DATA_FRONTIER
            ELSE TRANSACTION_NON_ZERO_DATA_INIT
    IN  [e |-> [e EXCEPT !.loaded = @ \cup PrecompileAddresses
                            \cup {access_list[i].address : i \in DOMAIN access_list}],
         cost |-> transact
                  + zero_data_len * TRANSACTION_ZERO_DATA
                  + non_zero_data_len * gas_transaction_non_zero_data
                  + accessed_accounts * ACCESS_LIST_ADDRESS
                  + accessed_slots * ACCESS_LIST_STORAGE_KEY]

Min(x, y) == IF x < y THEN x ELSE y

\* width of u64, scaled down to the integers of the checker
U64_BITS == 24
\* `as u64` of a signed counter: two's complement, nothing is clipped
AsU64(x) == x % (2 ^ U64_BITS)

\* mutant: the coinbase is credited the gas spent, the refund included
FinalizeCreditsRefundTwice(e, gas) ==
    LET gas_price == e.tx[1].gas_price
        gas_refunded == Min(AsU64(gas.refunded), GasSpend(gas) \div 2)
    IN  [e EXCEPT !.balance = @ + gas_price * (GasRemaining(gas) + gas_refunded),
                  !.loaded = @ \cup {"coinbase"},
                  !.coinbase = @ + gas_price * GasSpend(gas),
                  !.gas = gas]

\* finalize (lines 158-170)
Finalize(e, gas) ==
    LET gas_price == e.tx[1].gas_price
        gas_refunded == Min(AsU64(gas.refunded), GasSpend(gas) \div 2)
    IN  [e EXCEPT !.balance = @ + gas_price * (GasRemaining(gas) + gas_refunded),
                  !.loaded = @ \cup {"coinbase"},
                  !.coinbase = @ + gas_price * (GasSpend(gas) - gas_refunded),
                  !.gas = gas]

\* the transaction: what call / create were called with
Tx(kind, SPEC, gas_limit, gas_price, input, access_list) ==
    [kind |-> kind, SPEC |-> SPEC, gas_limit |-> gas_limit,
     gas_price |-> gas_price, input |-> input, access_list |-> access_list]

\* the tuple call / create return
Returned(e, exit_reason, out, gas_spent, state, path) ==
    [e EXCEPT !.pc = "returned",
              !.result = Some([exit |-> exit_reason, out |-> out,
                               gas_spent |-> gas_spent, state |-> state,
                               path |-> path])]

\* mutant: the abort reports the whole gas limit as spent
AbortReportsGasLimit(e, exit_reason, out, path) ==
    Returned(e, exit_reason, out, e.tx[1].gas_limit, EmptyState, path)

\* mutant: the abort hands out the state of the subroutine
AbortReturnsSubroutineState(e, exit_reason, out, path) ==
    Returned(e, exit_reason, out, 0, SubRoutineFinalize(e), path)

\* the early returns of call (lines 44-49, 58-63) and create (lines 110-123)
Abort(e, exit_reason, out, path) ==
    Returned(e, exit_reason, out, 0, EmptyState, path)

\* mutant: the gas the inner frame left is not given back
AfterInnerKeepsAll(e) ==
    LET r == e.last[1]
        e1 == Finalize(e, e.gas)
    IN  Returned(e1, r.exit, IF r.kind = "call" THEN r.out ELSE r.address,
                 GasSpend(e.gas), SubRoutineFinalize(e1), "inner")

\* call lines 86-92, create lines 129-137: what follows the return of
\* call_inner / create_inner
AfterInner(e) ==
    LET r == e.last[1]
        gas == ReimburseUnspend(e.gas, r.exit, r.gas)
        e1 == Finalize(e, gas)
    IN  Returned(e1, r.exit, IF r.kind = "call" THEN r.out ELSE r.address,
                 GasSpend(gas), SubRoutineFinalize(e1), "inner")

\* the machine of the outermost frame runs, or the transaction is over
Continue(e) ==
    IF e.stack = <<>> THEN AfterInner(e) ELSE [e EXCEPT !.pc = "running"]

\* call (lines 30-93)
EvmCall(e0, SPEC, gas_limit, gas_price, data, access_list, transfer, precompile) ==
    LET e == [e0 EXCEPT !.tx = Some(Tx("call", SPEC, gas_limit, gas_price,
                                       data, access_list))]
        init == Initialization(e, SPEC, data, FALSE, access_list)
        r == RecordCost(GasNew(gas_limit), init.cost)
    IN  IF ~r.ok
        THEN Abort(init.e, Exit("Error", "OutOfGas"), <<>>, "intrinsic")
        ELSE LET e1 == Journal([init.e EXCEPT !.loaded = @ \cup {"caller"},
                                              !.nonce = @ + 1], "nonce")
                 payment_value == gas_limit * gas_price
             IN  IF e1.balance < payment_value
                 THEN Abort(e1, Exit("Error", "OutOfFund"), <<>>, "payment")
                 ELSE LET inner_limit == GasRemaining(r.gas)
                          e2 == [e1 EXCEPT !.balance = @ - payment_value,
                                           !.gas = RecordCost(r.gas, inner_limit).gas]
                      IN  Continue(CallInner(e2, transfer, precompile, inner_limit))

\* create (lines 95-138)
EvmCreate(e0, SPEC, gas_limit, gas_price, init_code, access_list, balance_ok, collision, transfer) ==
    LET e == [e0 EXCEPT !.tx = Some(Tx("create", SPEC, gas_limit, gas_price,
                                       init_code, access_list)),
                        !.loaded = @ \cup {"caller"}]
        payment_value == gas_limit * gas_price
    IN  IF e.balance < payment_value
        THEN Abort(e, Exit("Error", "OutOfFund"), None, "payment")
        ELSE LET e1 == [e EXCEPT !.balance = @ - payment_value]
                 init == Initialization(e1, SPEC, init_code, TRUE, access_list)
                 r == RecordCost(GasNew(gas_limit), init.cost)
             IN  IF ~r.ok
                 THEN Abort(init.e, Exit("Error", "OutOfGas"), None, "intrinsic")
                 ELSE LET inner_limit == GasRemaining(r.gas)
                          e2 == [init.e EXCEPT
                                   !.gas = RecordCost(r.gas, inner_limit).gas]
                      IN  Continue(CreateInner(e2, SPEC, init_code, balance_ok,
                                               collision, transfer, inner_limit))

(***************************************************************************)
(* Interpreter (crates/revm/src/instructions/misc.rs): the machine of one  *)
(* frame and the control-flow handlers jump, jumpi, jumpdest, pc, push.    *)
(***************************************************************************)
\* OpCode values
STOP == 0
ADD == 1
DIV == 4
SDIV == 5
JUMP == 86
JUMPI == 87
PC == 88
JUMPDEST == 91
PUSH1 == 96
PUSH2 == 97
PUSH32 == 127
MSTORE8 == 83
RETURN == 243
REVERT == 253

\* machine::STACK_LIMIT
STACK_LIMIT == 1024
\* gas::JUMPDEST
GAS_JUMPDEST == 1
\* gas::MEMORY
MEMORY == 3
\* zero bytes a Contract appends to its code ("code padding is needed for
\* contracts", misc.rs line 184): the 32 immediate bytes of a PUSH32 at the
\* last byte of the code, and the STOP that follows them
CODE_PADDING == 33

\* width of usize, scaled down: a PUSH2 can push a value that does not fit
USIZE_BITS == 8
\* width of U256, scaled down
U256_BITS == 20
\* longest code of the enumerated programs
MaxProgramLen == 4
\* gas limit of the machine
MaxGas == 4

\* contract analysis: the offsets (from 0) of the JUMPDEST bytes of code that
\* are opcodes, not immediate bytes of a PUSH, from offset i on
RECURSIVE analysis(_, _)
analysis(code, i) ==
    IF i >= Len(code) THEN {}
    ELSE LET opcode == code[i + 1]
         IN  IF opcode = JUMPDEST THEN {i} \cup analysis(code, i + 1)
             ELSE IF opcode >= PUSH1 /\ opcode <= PUSH32
                  THEN analysis(code, i + 1 + (opcode - PUSH1 + 1))
                  ELSE analysis(code, i + 1)

\* mutant: the code is not padded
ContractNewUnpadded(code) ==
    [code |-> code, code_size |-> Len(code), jumpdests |-> analysis(code, 0)]

\* Contract::new: code is the padded code, code_size the length of the code
\* the contract was made of
ContractNew(code) ==
    [code |-> code \o [i \in 1..CODE_PADDING |-> STOP],
     code_size |-> Len(code),
     jumpdests |-> analysis(code, 0)]

\* Contract::is_valid_jump
is_valid_jump(contract, dest) ==
    dest < contract.code_size /\ dest \in contract.jumpdests

\* usize::MAX
USIZE_MAX == 2 ^ USIZE_BITS - 1

\* Machine::new under the spec SPEC.  program_counter is the offset of the
\* pointer into contract.code; memory is the bytes of the Memory;
\* return_range is the range of memory the machine returns; ret is the Return
\* of the last handler ("Continue" while the machine runs, "OutOfBounds" when
\* a read left contract.code); opcode, position and popped describe the step
\* taken last
MachineNew(code, gas_limit, SPEC) ==
    [contract |-> ContractNew(code), program_counter |-> 0, stack |-> <<>>,
     gas |-> gas_limit, memory |-> <<>>,
     return_range |-> [start |-> 0, end |-> 0], SPEC |-> SPEC,
     ret |-> "Continue", opcode |-> None, position |-> 0, popped |-> <<>>]

\* a handler returns r
Return(m, r) == [m EXCEPT !.ret = r]

\* pop!: the n topmost values, topmost first
Popped(m, n) == [i \in 1..n |-> m.stack[Len(m.stack) + 1 - i]]
AfterPop(m, n) ==
    [m EXCEPT !.stack = SubSeq(m.stack, 1, Len(m.stack) - n),
              !.popped = Popped(m, n)]

\* push! and Stack::push_slice
StackPush(m, value) ==
    IF Len(m.stack) + 1 > STACK_LIMIT THEN Return(m, "StackOverflow")
    ELSE Return([m EXCEPT !.stack = Append(m.stack, value)], "Continue")

\* as_usize_or_fail!: the value fits usize
FitsUsize(value) == value < 2 ^ USIZE_BITS

\* Machine::add_next_gas_block: the static cost of the modelled opcodes other
\* than JUMPDEST is not counted
add_next_gas_block(m) == Return(m, "Continue")

\* mutant: the destination is not validated
jump_unchecked(m) ==
    IF Len(m.stack) < 1 THEN Return(m, "StackUnderflow")
    ELSE LET dest == Popped(m, 1)[1]
             m1 == AfterPop(m, 1)
         IN  IF ~FitsUsize(dest) THEN Return(m1, "InvalidJump")
             ELSE Return([m1 EXCEPT !.program_counter = dest], "Continue")

\* misc::jump (lines 130-143)
jump(m) ==
    IF Len(m.stack) < 1 THEN Return(m, "StackUnderflow")
    ELSE LET dest == Popped(m, 1)[1]
             m1 == AfterPop(m, 1)
         IN  IF ~FitsUsize(dest) THEN Return(m1, "InvalidJump")
             ELSE IF is_valid_jump(m1.contract, dest)
                  THEN Return([m1 EXCEPT !.program_counter = dest], "Continue")
                  ELSE Return(m1, "InvalidJump")

\* mutant: the destination of a taken conditional jump is not validated
jumpi_unchecked(m) ==
    IF Len(m.stack) < 2 THEN Return(m, "StackUnderflow")
    ELSE LET dest == Popped(m, 2)[1]
             value == Popped(m, 2)[2]
             m1 == AfterPop(m, 2)
         IN  IF value # 0
             THEN IF ~FitsUsize(dest) THEN Return(m1, "InvalidJump")
                  ELSE Return([m1 EXCEPT !.program_counter = dest], "Continue")
             ELSE add_next_gas_block(m1)

\* misc::jumpi (lines 145-162)
jumpi(m) ==
    IF Len(m.stack) < 2 THEN Return(m, "StackUnderflow")
    ELSE LET dest == Popped(m, 2)[1]
             value == Popped(m, 2)[2]
             m1 == AfterPop(m, 2)
         IN  IF value # 0
             THEN IF ~FitsUsize(dest) THEN Return(m1, "InvalidJump")
                  ELSE IF is_valid_jump(m1.contract, dest)
                       THEN Return([m1 EXCEPT !.program_counter = dest], "Continue")
                       ELSE Return(m1, "InvalidJump")
             ELSE add_next_gas_block(m1)

\* misc::jumpdest (lines 164-168)
jumpdest(m) ==
    IF m.gas < GAS_JUMPDEST THEN Return(m, "OutOfGas")
    ELSE add_next_gas_block([m EXCEPT !.gas = @ - GAS_JUMPDEST])

\* misc::pc (lines 170-175)
pc(m) == StackPush(m, m.program_counter - 1)

\* U256 of a big-endian byte slice
RECURSIVE FromBigEndian(_)
FromBigEndian(bytes) ==
    IF bytes = <<>> THEN 0
    ELSE FromBigEndian(SubSeq(bytes, 1, Len(bytes) - 1)) * 256 + bytes[Len(bytes)]

\* misc::push (lines 184-192): the N bytes at the program counter are read
\* and the program counter is moved past them, whatever N and the code are
push(m, N) ==
    LET start == m.program_counter
        m1 == [m EXCEPT !.program_counter = start + N]
    IN  IF start + N > Len(m.contract.code) THEN Return(m1, "OutOfBounds")
        ELSE StackPush(m1, FromBigEndian(SubSeq(m.contract.code, start + 1, start + N)))

\* calc::memory_gas (lines 307-313): the gas of a memory of a words (the
\* checked arithmetic does not overflow for the memories of the model)
memory_gas(a) == MEMORY * a + (a * a) \div 512

\* memory_resize!: the memory is grown, with zero bytes, to the 32-byte words
\* that hold offset .. offset + len, and the growth is paid for; a range the
\* gas does not pay for, or that does not fit usize, fails with OutOfGas
memory_resize(m, offset, len) ==
    LET old_words == Len(m.memory) \div 32
        new_words == (offset + len + 31) \div 32
        cost == memory_gas(new_words) - memory_gas(old_words)
    IN  IF offset + len > USIZE_MAX THEN Return(m, "OutOfGas")
        ELSE IF new_words <= old_words THEN Return(m, "Continue")
        ELSE IF m.gas < cost THEN Return(m, "OutOfGas")
        ELSE Return([m EXCEPT !.gas = @ - cost,
                              !.memory = @ \o [i \in 1..(32 * (new_words - old_words)) |-> 0]],
                    "Continue")

\* misc::mstore8 (lines 117-128)
mstore8(m) ==
    IF Len(m.stack) < 2 THEN Return(m, "StackUnderflow")
    ELSE LET index == Popped(m, 2)[1]
             value == Popped(m, 2)[2]
             m1 == AfterPop(m, 2)
         IN  IF ~FitsUsize(index) THEN Return(m1, "OutOfGas")
             ELSE LET m2 == memory_resize(m1, index, 1)
                  IN  IF m2.ret # "Continue" THEN m2
                      ELSE Return([m2 EXCEPT !.memory[index + 1] = value % 256],
                                  "Continue")

\* the body misc::ret and misc::revert share: the range start .. start + len
\* of the memory becomes the return range, and the handler returns r
SetReturnRange(m, r) ==
    IF Len(m.stack) < 2 THEN Return(m, "StackUnderflow")
    ELSE LET start == Popped(m, 2)[1]
             len == Popped(m, 2)[2]
             m1 == AfterPop(m, 2)
         IN  IF ~FitsUsize(len) THEN Return(m1, "OutOfGas")
             ELSE IF len = 0
             THEN Return([m1 EXCEPT !.return_range =
                              [start |-> USIZE_MAX, end |-> USIZE_MAX]], r)
             ELSE IF ~FitsUsize(start) THEN Return(m1, "OutOfGas")
             ELSE LET m2 == memory_resize(m1, start, len)
                  IN  IF m2.ret # "Continue" THEN m2
                      ELSE Return([m2 EXCEPT !.return_range =
                                       [start |-> start, end |-> start + len]], r)

\* misc::ret (lines 206-219)
misc_ret(m) == SetReturnRange(m, "Return")

\* misc::revert (lines 221-236)
misc_revert(m) ==
    IF ~SpecEnabled(m.SPEC, "BYZANTINE") THEN Return(m, "NotActivated")
    ELSE SetReturnRange(m, "Revert")

\* Machine::return_value: the bytes of the return range
return_value(m) ==
    IF m.return_range.start = USIZE_MAX THEN <<>>
    ELSE SubSeq(m.memory, m.return_range.start + 1, m.return_range.end)

\* U256 arithmetic of the two topmost values
AsU256(x) == x % (2 ^ U256_BITS)
Op2(m, opcode) ==
    IF Len(m.stack) < 2 THEN Return(m, "StackUnderflow")
    ELSE LET op1 == Popped(m, 2)[1]
             op2 == Popped(m, 2)[2]
             m1 == AfterPop(m, 2)
         IN  StackPush(m1, IF opcode = ADD THEN AsU256(op1 + op2)
                           ELSE IF op2 = 0 THEN 0 ELSE op1 \div op2)

\* opcode::eval for the opcodes of the modelled programs (the values on the
\* stack are below 2^255, where SDIV is DIV)
eval(m, opcode) ==
    CASE opcode = STOP -> Return(m, "Stopped")
      [] opcode \in {ADD, DIV, SDIV} -> Op2(m, opcode)
      [] opcode = JUMP -> jump(m)
      [] opcode = JUMPI -> jumpi(m)
      [] opcode = PC -> pc(m)
      [] opcode = JUMPDEST -> jumpdest(m)
      [] opcode = PUSH1 -> push(m, 1)
      [] opcode = PUSH2 -> push(m, 2)
      [] opcode = MSTORE8 -> mstore8(m)
      [] opcode = RETURN -> misc_ret(m)
      [] opcode = REVERT -> misc_revert(m)
      [] OTHER -> Return(m, "OpCodeNotFound")

\* one turn of the loop of Machine::run: the opcode at the program counter is
\* read, the program counter moved past it and the opcode's handler called
step(m) ==
    IF m.program_counter >= Len(m.contract.code) THEN Return(m, "OutOfBounds")
    ELSE LET opcode == m.contract.code[m.program_counter + 1]
             m1 == [m EXCEPT !.program_counter = @ + 1, !.opcode = Some(opcode),
                             !.position = m.program_counter, !.popped = <<>>]
         IN  eval(m1, opcode)

\* Machine::run: the loop, up to the Return that ends it
RECURSIVE run(_)
run(m) == IF m.ret # "Continue" THEN m ELSE run(step(m))

\* the ExitReason of the Return that ended a machine
ExitReasonOf(r) ==
    CASE r = "Stopped" -> Exit("Succeed", "Stopped")
      [] r = "Return" -> Exit("Succeed", "Returned")
      [] r = "Revert" -> Exit("Revert", "Reverted")
      [] OTHER -> Exit("Error", r)

\* PUSH1 len; PUSH1 start; RETURN or REVERT
ExitProgram(opcode, start, len) == <<PUSH1, len, PUSH1, start, opcode>>
\* PUSH1 1; PUSH1 0; MSTORE8, and then the program rest
StoreProgram(rest) == <<PUSH1, 1, PUSH1, 0, MSTORE8>> \o rest

\* the programs of the frames of a transaction: RETURN and REVERT of
\* nothing, of a byte stored before and of MAX_CODE_LEN + 1 bytes, a RETURN
\* and a REVERT of more memory than the gas pays for, and an invalid jump
\* after a byte was stored
FramePrograms ==
    {ExitProgram(opcode, 0, len) : opcode \in {RETURN, REVERT}, len \in {0, 96}}
    \cup {StoreProgram(ExitProgram(opcode, 0, 1)) : opcode \in {RETURN, REVERT}}
    \cup {ExitProgram(RETURN, 0, MAX_CODE_LEN + 1), StoreProgram(<<PUSH1, 0, JUMP>>)}

\* the machines of the frames of a transaction under SPEC, after their run
OutcomesBySpec ==
    [SPEC \in SpecIds |-> {run(MachineNew(code, MaxGas, SPEC)) : code \in FramePrograms}]
MachineOutcomes(SPEC) == OutcomesBySpec[SPEC]

(***************************************************************************)
(* One transaction through the EVM driver.                                 *)
(***************************************************************************)
GasLimits == {21000, 21070, 80000}
GasPrices == {1}
CallerBalances == {21000, 1000000}
\* the hard forks transactions are run under
TxSpecs == {"FRONTIER", "ISTANBUL", "BERLIN"}
\* input data and access list of a transaction
TxData ==
    {[input |-> <<>>, access_list |-> <<>>],
     [input |-> <<1>>, access_list |-> <<>>],
     [input |-> <<0, 1>>, access_list |-> <<>>],
     [input |-> <<>>, access_list |-> <<[address |-> "listed", slots |-> <<1>>]>>]}
\* the outcomes of a call whose code_address may be a precompile
PrecompileOutcomes(gas_limit) ==
    {None, Some([ok |-> FALSE, cost |-> 0, output |-> <<>>])}
    \cup {Some([ok |-> TRUE, cost |-> c, output |-> <<2>>]) : c \in {0, gas_limit + 1}}

InitEvm ==
    /\ bundle = BundleStateDefault
    /\ detached = None
    /\ taken = None
    /\ op = "default"
    /\ arg = 0
    /\ ret = FALSE
    /\ panicked = "none"
    /\ before = BundleStateDefault
    /\ upper = BundleStateDefault
    /\ snaps = <<>>
    /\ undone = <<>>
    /\ streak = 0
    /\ recorded = 0
    /\ evm \in {Some(EVMNew(b)) : b \in CallerBalances}
    /\ machine = None
    /\ sstores = None

\* EVM::call under one of the hard forks specs, at one of the gas prices
CallWith(specs, prices) ==
    /\ evm # None
    /\ evm[1].pc = "new"
    /\ \E SPEC \in specs, gas_limit \in GasLimits, gas_price \in prices,
          data \in TxData, transfer \in {"fails", "ok"} :
         \E precompile \in PrecompileOutcomes(gas_limit) :
            evm' = Some(EvmCall(evm[1], SPEC, gas_limit, gas_price, data.input,
                                data.access_list, transfer, precompile))
    /\ UNCHANGED <<sstores, machine, bundleVars>>

\* EVM::create under one of the hard forks specs, at one of the gas prices
CreateWith(specs, prices) ==
    /\ evm # None
    /\ evm[1].pc = "new"
    /\ \E SPEC \in specs, gas_limit \in GasLimits, gas_price \in prices,
          data \in TxData, balance_ok \in BOOLEAN, collision \in BOOLEAN,
          transfer \in {"fails", "ok"} :
            evm' = Some(EvmCreate(evm[1], SPEC, gas_limit, gas_price, data.input,
                                  data.access_list, balance_ok, collision,
                                  transfer))
    /\ UNCHANGED <<sstores, machine, bundleVars>>

\* EVM::call
Call == CallWith(TxSpecs, GasPrices)

\* EVM::create
Create == CreateWith(TxSpecs, GasPrices)

\* Handler::call (lines 502-511): the running machine executes a call opcode
MachineCall ==
    /\ evm # None
    /\ evm[1].pc = "running"
    /\ evm[1].spawned < MaxSpawn
    /\ LET e == [evm[1] EXCEPT !.spawned = @ + 1]
           gas == Top(e).gas_limit
       IN  \E transfer \in {"none", "fails", "ok"},
              precompile \in PrecompileOutcomes(gas) :
                evm' = Some(CallInner(e, transfer, precompile, gas))
    /\ UNCHANGED <<sstores, machine, bundleVars>>

\* Handler::create (lines 491-500): the running machine executes a create
MachineCreate ==
    /\ evm # None
    /\ evm[1].pc = "running"
    /\ evm[1].spawned < MaxSpawn
    /\ LET e == [evm[1] EXCEPT !.spawned = @ + 1]
       IN  \E balance_ok \in BOOLEAN, collision \in BOOLEAN,
              transfer \in {"fails", "ok"} :
                evm' = Some(CreateInner(e, e.tx[1].SPEC, <<1>>, balance_ok,
                                        collision, transfer, Top(e).gas_limit))
    /\ UNCHANGED <<sstores, machine, bundleVars>>

\* Handler::sstore (lines 465-467): the running machine writes a slot
MachineSstore ==
    /\ evm # None
    /\ evm[1].pc = "running"
    /\ evm[1].sstores < MaxSstore
    /\ evm' = Some(Journal([evm[1] EXCEPT !.sstores = @ + 1], "sstore"))
    /\ UNCHANGED <<sstores, machine, bundleVars>>

\* machine.run returns in the innermost call_inner / create_inner: the
\* machine ran one of the programs, its gas left and its refund counter, one
\* of refunds, being what the opcodes not modelled made them
MachineExitWith(refunds) ==
    /\ evm # None
    /\ evm[1].pc = "running"
    /\ LET e == evm[1]
       IN  \E m \in MachineOutcomes(e.tx[1].SPEC), left \in {0, Top(e).gas_limit},
              refunded \in refunds :
                /\ evm' = Some(Continue(
                    IF Top(e).kind = "call"
                    THEN CallInnerExit(e, ExitReasonOf(m.ret), left, refunded,
                                       return_value(m))
                    ELSE CreateInnerExit(e, e.tx[1].SPEC, ExitReasonOf(m.ret), left,
                                         refunded, return_value(m))))
                /\ machine' = Some(m)
    /\ UNCHANGED <<sstores, bundleVars>>

\* machine.run returns, nothing to refund
MachineExit == MachineExitWith({0})

NextEvm ==
    \/ Call
    \/ Create
    \/ MachineCall
    \/ MachineCreate
    \/ MachineSstore
    \/ MachineExit

SpecEvm == InitEvm /\ [][NextEvm]_vars

(***************************************************************************)
(* One transaction whose code calls nothing, under every hard fork, with   *)
(* refunds.                                                                *)
(***************************************************************************)
AllGasPrices == {1, 2}
\* the refund counter (signed) a machine ends with
Refunds == {-1, 0, 100, 50000}

CallAnySpec == CallWith(SpecIds, AllGasPrices)
CreateAnySpec == CreateWith(SpecIds, AllGasPrices)
MachineExitRefund == MachineExitWith(Refunds)

NextTx ==
    \/ CallAnySpec
    \/ CreateAnySpec
    \/ MachineSstore
    \/ MachineExitRefund

SpecTx == InitEvm /\ [][NextTx]_vars

(***************************************************************************)
(* One machine running one program.                                        *)
(***************************************************************************)
\* the bytes of the enumerated programs
CodeBytes == {STOP, ADD, JUMP, JUMPI, PC, JUMPDEST, PUSH1, PUSH2}

\* PUSH1 dest; JUMP; STOP; JUMPDEST; STOP
JumpProgram(dest) == <<PUSH1, dest, JUMP, STOP, JUMPDEST, STOP>>

\* programs longer than MaxProgramLen: a jump to every offset of JumpProgram
\* and beyond, a loop, conditional jumps taken and not taken, a JUMPDEST byte
\* that is the immediate of a PUSH1, destinations that do not fit usize, and
\* a PUSH2 whose immediates end with the code
Programs ==
    {JumpProgram(dest) : dest \in 0..6}
    \cup {<<JUMPDEST, PUSH1, 0, JUMP>>}
    \cup {<<PUSH1, value, PUSH1, 5, JUMPI, JUMPDEST, STOP>> : value \in {0, 1}}
    \cup {<<PUSH1, JUMPDEST, PUSH1, dest, JUMP>> : dest \in {0, 1}}
    \cup {<<PUSH2, 1, 0, JUMP>>, <<PUSH1, 1, PUSH2, 1, 0, JUMPI>>,
          <<PUSH1, 0, PUSH2, 1, 0, JUMPI>>}
    \cup {<<JUMPDEST, PUSH1, 1, PUSH1, 0, JUMPI, PC, PUSH2, 1>>}

Codes ==
    Programs \cup FramePrograms \cup UNION {[1..n -> CodeBytes] : n \in 0..MaxProgramLen}

InitMachine ==
    /\ bundle = BundleStateDefault
    /\ detached = None
    /\ taken = None
    /\ op = "default"
    /\ arg = 0
    /\ ret = FALSE
    /\ panicked = "none"
    /\ before = BundleStateDefault
    /\ upper = BundleStateDefault
    /\ snaps = <<>>
    /\ undone = <<>>
    /\ streak = 0
    /\ recorded = 0
    /\ evm = None
    /\ machine \in {Some(MachineNew(code, MaxGas, "LONDON")) : code \in Codes}
                 \cup {Some(MachineNew(code, MaxGas, "FRONTIER")) : code \in FramePrograms}
    /\ sstores = None

\* Machine::run takes one turn of its loop
MachineStep ==
    /\ machine # None
    /\ machine[1].ret = "Continue"
    /\ machine' = Some(step(machine[1]))
    /\ UNCHANGED <<sstores, evm, bundleVars>>

NextMachine == MachineStep

SpecMachine == InitMachine /\ [][NextMachine]_vars

(***************************************************************************)
(* Gas of SSTORE (src/opcode/gas/calc.rs): sstore_cost, sstore_refund.     *)
(***************************************************************************)
\* constants of Spec
CALL_STIPEND == 2300
GAS_SSTORE_SET == 20000
GAS_SSTORE_RESET == 5000
GAS_SLOAD_FRONTIER == 50
GAS_SLOAD_TANGERINE == 200
GAS_SLOAD_ISTANBUL == 800
GAS_SLOAD_COLD_BERLIN == 2100
GAS_STORAGE_READ_WARM_BERLIN == 100
REFUND_SSTORE_CLEARS_FRONTIER == 15000
REFUND_SSTORE_CLEARS_LONDON == 4800

SSTORE_GAS_METERING(SPEC) == SpecEnabled(SPEC, "ISTANBUL")
SSTORE_REVERT_UNDER_STIPEND(SPEC) == SpecEnabled(SPEC, "ISTANBUL")
INCREASE_STATE_ACCESS_GAS(SPEC) == SpecEnabled(SPEC, "BERLIN")
GAS_SLOAD(SPEC) ==
    IF SpecEnabled(SPEC, "ISTANBUL") THEN GAS_SLOAD_ISTANBUL
    ELSE IF SpecEnabled(SPEC, "SPURIOUS_DRAGON") THEN GAS_SLOAD_TANGERINE
    ELSE GAS_SLOAD_FRONTIER
GAS_SLOAD_COLD(SPEC) == IF SpecEnabled(SPEC, "BERLIN") THEN GAS_SLOAD_COLD_BERLIN ELSE 0
GAS_STORAGE_READ_WARM(SPEC) ==
    IF SpecEnabled(SPEC, "BERLIN") THEN GAS_STORAGE_READ_WARM_BERLIN ELSE 0
REFUND_SSTORE_CLEARS(SPEC) ==
    IF SpecEnabled(SPEC, "LONDON") THEN REFUND_SSTORE_CLEARS_LONDON
    ELSE REFUND_SSTORE_CLEARS_FRONTIER

\* mutant: clearing a slot that was not changed before refunds nothing
sstore_refund_no_clear(SPEC, original, current, new) ==
    IF current = new \/ ~SSTORE_GAS_METERING(SPEC) THEN 0
    ELSE IF original = current THEN 0
    ELSE (IF original # 0 /\ current = 0 THEN 0 - REFUND_SSTORE_CLEARS(SPEC)
          ELSE IF original # 0 /\ new = 0 THEN REFUND_SSTORE_CLEARS(SPEC) ELSE 0)
         + (IF original # new THEN 0
            ELSE IF original = 0 THEN GAS_SSTORE_SET - GAS_STORAGE_READ_WARM(SPEC)
            ELSE GAS_SSTORE_RESET - GAS_SLOAD_COLD(SPEC) - GAS_STORAGE_READ_WARM(SPEC))

\* mutant: a slot set back to its original value refunds nothing
sstore_refund_no_reset(SPEC, original, current, new) ==
    IF SSTORE_GAS_METERING(SPEC)
    THEN IF current = new THEN 0
         ELSE IF original = current /\ new = 0 THEN REFUND_SSTORE_CLEARS(SPEC)
         ELSE IF original # 0
              THEN IF current = 0 THEN 0 - REFUND_SSTORE_CLEARS(SPEC)
                   ELSE IF new = 0 THEN REFUND_SSTORE_CLEARS(SPEC) ELSE 0
              ELSE 0
    ELSE IF current # 0 /\ new = 0 THEN REFUND_SSTORE_CLEARS(SPEC) ELSE 0

\* calc::sstore_refund (lines 14-59)
sstore_refund(SPEC, original, current, new) ==
    IF SSTORE_GAS_METERING(SPEC)
    THEN IF current = new THEN 0
         ELSE IF original = current /\ new = 0 THEN REFUND_SSTORE_CLEARS(SPEC)
         ELSE LET refund1 == IF original # 0
                             THEN IF current = 0 THEN 0 - REFUND_SSTORE_CLEARS(SPEC)
                                  ELSE IF new = 0 THEN REFUND_SSTORE_CLEARS(SPEC)
                                  ELSE 0
                             ELSE 0
                  gas_sstore_reset == IF INCREASE_STATE_ACCESS_GAS(SPEC)
                                      THEN GAS_SSTORE_RESET - GAS_SLOAD_COLD(SPEC)
                                      ELSE GAS_SSTORE_RESET
                  gas_sload == IF INCREASE_STATE_ACCESS_GAS(SPEC)
                               THEN GAS_STORAGE_READ_WARM(SPEC)
                               ELSE GAS_SLOAD(SPEC)
                  refund2 == IF original = new
                             THEN IF original = 0 THEN GAS_SSTORE_SET - gas_sload
                                  ELSE gas_sstore_reset - gas_sload
                             ELSE 0
              IN  refund1 + refund2
    ELSE IF current # 0 /\ new = 0 THEN REFUND_SSTORE_CLEARS(SPEC) ELSE 0

\* mutant: the gas left is not compared with the stipend
sstore_cost_no_stipend(SPEC, original, current, new, gas, is_cold) ==
    LET gas_sload == IF INCREASE_STATE_ACCESS_GAS(SPEC)
                     THEN GAS_STORAGE_READ_WARM(SPEC) ELSE GAS_SLOAD(SPEC)
        gas_sstore_reset == IF INCREASE_STATE_ACCESS_GAS(SPEC)
                            THEN GAS_SSTORE_RESET - GAS_SLOAD_COLD(SPEC)
                            ELSE GAS_SSTORE_RESET
        gas_cost == IF SSTORE_GAS_METERING(SPEC)
                    THEN IF new = current THEN gas_sload
                         ELSE IF original = current
                              THEN IF original = 0 THEN GAS_SSTORE_SET
                                   ELSE gas_sstore_reset
                              ELSE gas_sload
                    ELSE IF current = 0 /\ new # 0 THEN GAS_SSTORE_SET
                         ELSE gas_sstore_reset
    IN  IF is_cold THEN Some(gas_cost + GAS_SLOAD_COLD(SPEC)) ELSE Some(gas_cost)

\* mutant: a slot changed before is priced as one changed first
sstore_cost_dirty_as_clean(SPEC, original, current, new, gas, is_cold) ==
    LET gas_sload == IF INCREASE_STATE_ACCESS_GAS(SPEC)
                     THEN GAS_STORAGE_READ_WARM(SPEC) ELSE GAS_SLOAD(SPEC)
        gas_sstore_reset == IF INCREASE_STATE_ACCESS_GAS(SPEC)
                            THEN GAS_SSTORE_RESET - GAS_SLOAD_COLD(SPEC)
                            ELSE GAS_SSTORE_RESET
        gas_cost == IF new = current THEN gas_sload
                    ELSE IF original = 0 THEN GAS_SSTORE_SET ELSE gas_sstore_reset
    IN  IF SSTORE_GAS_METERING(SPEC) /\ SSTORE_REVERT_UNDER_STIPEND(SPEC)
           /\ gas <= CALL_STIPEND
        THEN None
        ELSE IF is_cold THEN Some(gas_cost + GAS_SLOAD_COLD(SPEC)) ELSE Some(gas_cost)

\* calc::sstore_cost (lines 177-224): None, or Some of the gas
sstore_cost(SPEC, original, current, new, gas, is_cold) ==
    LET gas_sload == IF INCREASE_STATE_ACCESS_GAS(SPEC)
                     THEN GAS_STORAGE_READ_WARM(SPEC) ELSE GAS_SLOAD(SPEC)
        gas_sstore_reset == IF INCREASE_STATE_ACCESS_GAS(SPEC)
                            THEN GAS_SSTORE_RESET - GAS_SLOAD_COLD(SPEC)
                            ELSE GAS_SSTORE_RESET
        gas_cost == IF SSTORE_GAS_METERING(SPEC)
                    THEN IF new = current THEN gas_sload
                         ELSE IF original = current
                              THEN IF original = 0 THEN GAS_SSTORE_SET
                                   ELSE gas_sstore_reset
                              ELSE gas_sload
                    ELSE IF current = 0 /\ new # 0 THEN GAS_SSTORE_SET
                         ELSE gas_sstore_reset
    IN  IF SSTORE_GAS_METERING(SPEC) /\ SSTORE_REVERT_UNDER_STIPEND(SPEC)
           /\ gas <= CALL_STIPEND
        THEN None
        ELSE IF is_cold THEN Some(gas_cost + GAS_SLOAD_COLD(SPEC)) ELSE Some(gas_cost)

(***************************************************************************)
(* The SSTOREs of one transaction to one storage slot.                     *)
(***************************************************************************)
\* SSTOREs of one transaction
MaxSlotWrites == 4
\* values of the slot
SlotValues == {0, 1, 2}
\* gas the frame has left at its first SSTORE
SstoreGas == {CALL_STIPEND, CALL_STIPEND + 1, 60000}

\* a slot of value original in the database, cold unless the access list of
\* the transaction names it, and a frame with gas left; ret is the Return of the last SSTORE, cost and refund the
\* sstore_cost and sstore_refund of it, refunded the refund counter of the
\* Gas, and before the slot, the gas and is_cold the last SSTORE found
SstoresNew(SPEC, original, gas, is_cold) ==
    [SPEC |-> SPEC, original |-> original, current |-> original, new |-> None,
     is_cold |-> is_cold, gas |-> gas, refunded |-> 0, ret |-> "Continue",
     cost |-> None, refund |-> 0, writes |-> 0,
     found |-> [current |-> original, gas |-> gas, is_cold |-> is_cold]]

\* system::sstore: the slot is written (Handler::sstore returns original,
\* the value before, new and is_cold), sstore_cost is paid out of the gas
\* left, or the frame is out of gas, and sstore_refund is added to the
\* refund counter
SstoreOp(s, new) ==
    LET cost == sstore_cost(s.SPEC, s.original, s.current, new, s.gas, s.is_cold)
        refund == sstore_refund(s.SPEC, s.original, s.current, new)
        s1 == [s EXCEPT !.new = Some(new), !.cost = cost, !.refund = 0,
                        !.writes = @ + 1, !.current = new, !.is_cold = FALSE,
                        !.found = [current |-> s.current, gas |-> s.gas,
                                   is_cold |-> s.is_cold]]
    IN  IF cost = None \/ cost[1] > s.gas THEN [s1 EXCEPT !.ret = "OutOfGas"]
        ELSE [s1 EXCEPT !.gas = @ - cost[1], !.refund = refund,
                        !.refunded = @ + refund]

InitSstore ==
    /\ bundle = BundleStateDefault
    /\ detached = None
    /\ taken = None
    /\ op = "default"
    /\ arg = 0
    /\ ret = FALSE
    /\ panicked = "none"
    /\ before = BundleStateDefault
    /\ upper = BundleStateDefault
    /\ snaps = <<>>
    /\ undone = <<>>
    /\ streak = 0
    /\ recorded = 0
    /\ evm = None
    /\ machine = None
    /\ sstores \in {Some(SstoresNew(SPEC, original, gas, is_cold)) :
                       SPEC \in SpecIds, original \in SlotValues, gas \in SstoreGas,
                       is_cold \in BOOLEAN}

\* the frame executes SSTORE on the slot
Sstore ==
    /\ sstores # None
    /\ sstores[1].ret = "Continue"
    /\ sstores[1].writes < MaxSlotWrites
    /\ \E new \in SlotValues : sstores' = Some(SstoreOp(sstores[1], new))
    /\ UNCHANGED <<machine, evm, bundleVars>>

NextSstore == Sstore

SpecSstore == InitSstore /\ [][NextSstore]_vars

(***************************************************************************)
(* Claims.                                                                 *)
(***************************************************************************)
\* no revert of U carries the storage-wipe flag
NoWipe(U) ==
    \A i \in DOMAIN U.reverts : \A j \in DOMAIN U.reverts[i] :
        ~U.reverts[i][j].revert.wipe_storage

\* every account U changes is held, with info, by L, together with every
\* slot U writes in it, or did not exist before U
Covered(L, U) ==
    /\ NoWipe(U)
    /\ \A a \in DOMAIN U.state :
        IF a \in DOMAIN L.state
        THEN /\ L.state[a].info # None
             /\ DOMAIN U.state[a].storage \subseteq DOMAIN L.state[a].storage
        ELSE U.state[a].original_info = None

\* the last operation reverted exactly the entries of `undone`, and was
\* called on the bundle the latest of these extends produced, each of them
\* having extended the result of the one before
RevertedChain ==
    /\ op \in {"revert", "revert_latest"}
    /\ panicked = "none"
    /\ undone # <<>>
    /\ before = undone[1].result
    /\ \A i \in 1..(Len(undone) - 1) : undone[i].lower = undone[i + 1].result

\* the last operation was revert(k) on L.extend(U), k the number of reverts
\* entries of U
RevertedExtend ==
    /\ RevertedChain
    /\ op = "revert"
    /\ Len(undone) = 1
    /\ arg = Len(undone[1].upper.reverts)

\* C1 (as claimed): L.extend(U) followed by revert(k) yields a bundle equal
\* to L in state, contracts and reverts.
C1_ExtendRevertEqualsLower ==
    RevertedExtend => bundle = undone[1].lower

\* C1 (amended): when every account and slot U changes is held by L or
\* created by U, and U wipes no storage, L.extend(U) followed by revert(k)
\* yields L's state and L's reverts, and the contracts of L extended with
\* those of U; in general reverting the n latest such entries yields the
\* state and reverts before the n-th latest transition.
C1_ExtendRevertRestoresState ==
    /\ (RevertedExtend /\ Covered(undone[1].lower, undone[1].upper)) =>
            /\ bundle.state = undone[1].lower.state
            /\ bundle.reverts = undone[1].lower.reverts
            /\ bundle.contracts =
                 MapExtend(undone[1].lower.contracts, undone[1].upper.contracts)
    /\ (/\ RevertedChain
        /\ \A i \in DOMAIN undone : Covered(undone[i].lower, undone[i].upper)) =>
            /\ bundle.state = undone[Len(undone)].lower.state
            /\ bundle.reverts = undone[Len(undone)].lower.reverts

C1_Witness ==
    /\ RevertedExtend
    /\ Covered(undone[1].lower, undone[1].upper)
    /\ undone[1].upper.contracts # EmptyMap
    /\ undone[1].lower.reverts # <<>>
    /\ \E a \in DOMAIN undone[1].upper.state :
        /\ a \in DOMAIN undone[1].lower.state
        /\ DOMAIN undone[1].upper.state[a].storage
             # DOMAIN undone[1].lower.state[a].storage

\* the extends that recorded the reverts entries of `before`, oldest first
OldSnaps == snaps \o [i \in 1..Len(undone) |-> undone[Len(undone) + 1 - i]]

\* `before` was built from the empty bundle by extends, one per reverts
\* entry, and every account it holds was created by them
BuiltFromEmpty ==
    LET h == OldSnaps
    IN  /\ Len(h) = Len(before.reverts)
        /\ IF h = <<>> THEN before = BundleStateDefault
           ELSE /\ h[1].lower = BundleStateDefault
                /\ h[Len(h)].result = before
                /\ \A i \in 1..(Len(h) - 1) : h[i + 1].lower = h[i].result
        /\ \A a \in DOMAIN before.state : before.state[a].original_info = None

\* C2 (as claimed): for any bundle b with k reverts entries, revert(n) with
\* n >= k leaves state and reverts empty: the empty bundle with b's contracts.
C2_RevertAllEmptiesAnyBundle ==
    (op = "revert" /\ arg >= Len(before.reverts)) =>
        /\ panicked = "none"
        /\ bundle = BundleState(EmptyMap, before.contracts, <<>>)

\* C2 (amended): for a bundle b built from the empty bundle by k extends with
\* bundles built on top of it, all of whose accounts were created by these
\* transitions, revert(n) with n >= k neither overflows nor panics and leaves
\* state and reverts empty and b's contracts in place.
C2_RevertAllEmptiesBuiltBundle ==
    (op = "revert" /\ arg >= Len(before.reverts) /\ BuiltFromEmpty) =>
        /\ panicked = "none"
        /\ bundle = BundleState(EmptyMap, before.contracts, <<>>)

C2_Witness ==
    /\ op = "revert"
    /\ arg > Len(before.reverts)
    /\ BuiltFromEmpty
    /\ Len(before.reverts) = 2
    /\ before.contracts # EmptyMap
    /\ bundle.state = EmptyMap

\* C3: revert(0) leaves state, contracts and reverts unchanged.
C3_RevertZeroIsNoop ==
    (op = "revert" /\ arg = 0) => (panicked = "none" /\ bundle = before)

C3_Witness ==
    /\ op = "revert"
    /\ arg = 0
    /\ Len(before.reverts) = 2
    /\ before.state # EmptyMap

NamesMissingAccount(b) ==
    /\ b.reverts # <<>>
    /\ \E j \in DOMAIN b.reverts[Len(b.reverts)] :
        b.reverts[Len(b.reverts)][j].address \notin DOMAIN b.state

\* C5: revert_latest halts the process, and never skips the entry, when the
\* popped reverts entry names an address that is not in state, as on the
\* bundle detach_lower_part_reverts returned.
C5_RevertOfMissingAccountHalts ==
    (op \in {"revert_latest", "revert_latest_detached"} /\ NamesMissingAccount(before))
        => panicked = "unreachable"

C5_Witness ==
    /\ op = "revert_latest_detached"
    /\ NamesMissingAccount(before)
    /\ Len(before.reverts) = 2
    /\ panicked = "unreachable"

\* C8: extending with the empty bundle is the identity on both sides.
C8_ExtendEmptyIsIdentity ==
    /\ (op = "extend" /\ upper = BundleStateDefault) => bundle = before
    /\ (op = "extend" /\ before = BundleStateDefault) => bundle = upper

C8_Witness ==
    /\ op = "extend"
    /\ upper = BundleStateDefault
    /\ Len(before.reverts) = 2
    /\ before.contracts # EmptyMap
    /\ Cardinality(DOMAIN before.state) = 2

\* C9: detach_lower_part_reverts(n) returns None and changes nothing when
\* n = 0 or n > reverts.len(); otherwise it returns a bundle with the oldest
\* n reverts entries and empty state and contracts, and leaves the remaining
\* entries, in order, with state and contracts intact.
C9_DetachSplitsReverts ==
    op = "detach_lower_part_reverts" =>
        IF arg = 0 \/ arg > Len(before.reverts)
        THEN detached = None /\ bundle = before
        ELSE /\ detached # None
             /\ detached[1].reverts = SubSeq(before.reverts, 1, arg)
             /\ detached[1].state = EmptyMap
             /\ detached[1].contracts = EmptyMap
             /\ detached[1].reverts \o bundle.reverts = before.reverts
             /\ bundle.state = before.state
             /\ bundle.contracts = before.contracts

C9_Witness ==
    /\ op = "detach_lower_part_reverts"
    /\ arg = 1
    /\ Len(before.reverts) = 2
    /\ before.reverts[1] # before.reverts[2]
    /\ before.contracts # EmptyMap
    /\ Len(bundle.reverts) = 1

StrictlyAscending(s) == \A i \in 1..(Len(s) - 1) : s[i][1] < s[i + 1][1]

\* C10: take_reverts leaves reverts empty and returns, per former reverts
\* entry and in their order, the accounts strictly ascending by address and
\* each account's slots strictly ascending by key.
C10_TakeRevertsSorted ==
    op = "take_reverts" =>
        /\ bundle = [before EXCEPT !.reverts = <<>>]
        /\ taken # None
        /\ Len(taken[1].accounts) = Len(before.reverts)
        /\ Len(taken[1].storage) = Len(before.reverts)
        /\ \A i \in DOMAIN before.reverts :
            /\ StrictlyAscending(taken[1].accounts[i])
            /\ {taken[1].accounts[i][j][1] : j \in DOMAIN taken[1].accounts[i]}
                 = {before.reverts[i][j].address : j \in
                        {x \in DOMAIN before.reverts[i] :
                            before.reverts[i][x].revert.account.tag # "DoNothing"}}
            /\ \A j \in DOMAIN taken[1].storage[i] :
                /\ StrictlyAscending(taken[1].storage[i][j][3])
                /\ \E x \in DOMAIN before.reverts[i] :
                    /\ before.reverts[i][x].address = taken[1].storage[i][j][1]
                    /\ DOMAIN before.reverts[i][x].revert.storage
                         = {taken[1].storage[i][j][3][y][1] :
                                y \in DOMAIN taken[1].storage[i][j][3]}

C10_Witness ==
    /\ op = "take_reverts"
    /\ Len(before.reverts) = 2
    /\ \E i \in DOMAIN before.reverts :
        /\ Len(taken[1].accounts[i]) = 2
        /\ Len(before.reverts[i]) = 2
        /\ before.reverts[i][1].address > before.reverts[i][2].address
        /\ \E j \in DOMAIN taken[1].storage[i] : Len(taken[1].storage[i][j][3]) = 2

\* X is held by both bundles of the last extend
InBoth(X) == op = "extend" /\ X \in DOMAIN before.state /\ X \in DOMAIN upper.state

\* C6: if X is Destroyed in bundle1 and Changed in bundle2, then after
\* bundle1.extend(bundle2) X is DestroyedChanged and has bundle2's info.
C6_DestroyedThenChanged ==
    \A X \in Addr :
        (/\ InBoth(X)
         /\ before.state[X].status = "Destroyed"
         /\ upper.state[X].status = "Changed") =>
            /\ bundle.state[X].status = "DestroyedChanged"
            /\ bundle.state[X].info = upper.state[X].info

C6_Witness ==
    /\ InBoth(account1)
    /\ before.state[account1].status = "Destroyed"
    /\ upper.state[account1].status = "Changed"
    /\ before.state[account1].info # upper.state[account1].info
    /\ bundle.state[account1].status = "DestroyedChanged"

\* C7: for an account in both bundles the merged status follows the
\* transition table: lower Changed with upper Destroyed gives Destroyed,
\* lower InMemoryChange with upper Changed gives InMemoryChange.
C7_StatusTable ==
    \A X \in Addr :
        /\ (/\ InBoth(X)
            /\ before.state[X].status = "Changed"
            /\ upper.state[X].status = "Destroyed") =>
                bundle.state[X].status = "Destroyed"
        /\ (/\ InBoth(X)
            /\ before.state[X].status = "InMemoryChange"
            /\ upper.state[X].status = "Changed") =>
                bundle.state[X].status = "InMemoryChange"

C7_Witness ==
    /\ InBoth(account1)
    /\ before.state[account1].status = "InMemoryChange"
    /\ upper.state[account1].status = "Changed"
    /\ bundle.state[account1].status = "InMemoryChange"

\* the first components of the entries of a sequence
Firsts(s) == {s[i][1] : i \in DOMAIN s}

\* C11: for every bundle and both values of omit_changed_check the changeset
\* of into_plain_state_sorted has its accounts strictly ascending by address,
\* its storage entries strictly ascending by address and the slots of each
\* account strictly ascending by key; with omit_changed_check every account
\* of the bundle is listed.
C11_PlainStateSorted ==
    op = "into_plain_state_sorted" =>
        /\ StrictlyAscending(taken[1].accounts)
        /\ StrictlyAscending(taken[1].storage)
        /\ \A i \in DOMAIN taken[1].storage :
            /\ StrictlyAscending(taken[1].storage[i][2][2])
            /\ Firsts(taken[1].storage[i][2][2])
                 \subseteq DOMAIN before.state[taken[1].storage[i][1]].storage
        /\ Firsts(taken[1].accounts) \subseteq DOMAIN before.state
        /\ ret => Firsts(taken[1].accounts) = DOMAIN before.state

C11_Witness ==
    /\ op = "into_plain_state_sorted"
    /\ ~ret
    /\ Len(taken[1].accounts) = 2
    /\ Len(taken[1].storage) = 2
    /\ \E i \in DOMAIN taken[1].storage : Len(taken[1].storage[i][2][2]) = 2
    /\ \E i \in DOMAIN taken[1].storage : Len(taken[1].storage[i][2][2]) = 1

\* C12: the contracts of the changeset are sorted by code hash, hold no
\* entry for KECCAK_EMPTY and hold every other contract of the bundle.
C12_PlainContractsFiltered ==
    op = "into_plain_state_sorted" =>
        /\ StrictlyAscending(taken[1].contracts)
        /\ Firsts(taken[1].contracts) = DOMAIN before.contracts \ {KECCAK_EMPTY}
        /\ \A i \in DOMAIN taken[1].contracts :
            taken[1].contracts[i][2] = before.contracts[taken[1].contracts[i][1]]

C12_Witness ==
    /\ op = "into_plain_state_sorted"
    /\ KECCAK_EMPTY \in DOMAIN before.contracts
    /\ Len(taken[1].contracts) = 2

\* no address occurs twice in one reverts entry of b
UniqueByAddress(b) ==
    \A i \in DOMAIN b.reverts : \A j, k \in DOMAIN b.reverts[i] :
        j # k => b.reverts[i][j].address # b.reverts[i][k].address

\* C13: after any sequence of apply_block_substate_and_create_reverts,
\* extend, revert_latest, revert and detach_lower_part_reverts starting from
\* the empty bundle, every inner reverts vector (of the bundle and of a
\* detached part) holds at most one entry per address.
C13_RevertsUniqueByAddress ==
    /\ UniqueByAddress(bundle)
    /\ detached # None => UniqueByAddress(detached[1])

C13_Witness ==
    /\ op = "extend"
    /\ Len(bundle.reverts) = 2
    /\ Len(bundle.reverts[1]) = 2
    /\ Len(bundle.reverts[2]) = 2
    /\ "retention" \in DOMAIN snaps[1]
    /\ UniqueByAddress(bundle)

\* the transition of address a applied to bundle L yields a revert
ProducesRevert(L, a, transition) ==
    ApplyEntry(L.state, a, transition).revert # None

\* C14: every apply_block_substate_and_create_reverts appends exactly one
\* entry to reverts and keeps the earlier ones; with retention PlainState the
\* entry is empty while state and contracts are updated as with Reverts; with
\* retention Reverts it holds one revert per account whose transition
\* produced a revert.
C14_ApplyAppendsOneEntry ==
    op = "apply_block_substate_and_create_reverts" =>
        LET ts == taken[1].transitions
            last == bundle.reverts[Len(bundle.reverts)]
            changed == {a \in DOMAIN ts : ProducesRevert(before, a, ts[a])}
        IN  /\ Len(bundle.reverts) = Len(before.reverts) + 1
            /\ SubSeq(bundle.reverts, 1, Len(before.reverts)) = before.reverts
            /\ \A a \in changed :
                /\ a \in DOMAIN bundle.state
                /\ bundle.state[a].info = ts[a].info
                /\ bundle.state[a].status = ts[a].status
            /\ \A a \in DOMAIN ts :
                HasNewContract(ts[a]) # None =>
                    HasNewContract(ts[a])[1][1] \in DOMAIN bundle.contracts
            /\ taken[1].retention = "PlainState" => last = <<>>
            /\ taken[1].retention = "Reverts" =>
                /\ {last[j].address : j \in DOMAIN last} = changed
                /\ Len(last) = Cardinality(changed)

C14_Witness ==
    /\ op = "apply_block_substate_and_create_reverts"
    /\ taken[1].retention = "PlainState"
    /\ Cardinality(DOMAIN taken[1].transitions) = 2
    /\ \E a \in DOMAIN taken[1].transitions :
        ~ProducesRevert(before, a, taken[1].transitions[a])
    /\ bundle.state # before.state
    /\ bundle.contracts # before.contracts
    /\ Len(bundle.reverts) = 2

LoadedStatuses == {"Loaded", "LoadedNotExisting", "LoadedEmptyEIP161"}

C16_CheckpointsClosedOnce ==
    evm # None =>
        LET e == evm[1]
        IN  /\ (e.last # None /\ e.last[1].checkpoint # 0) =>
                    Len(e.cps[e.last[1].checkpoint].closes) = 1
            /\ (e.result # None /\ e.result[1].path = "inner") =>
                    /\ \A i \in DOMAIN e.cps : Len(e.cps[i].closes) = 1
                    /\ e.depth = 0

\* C17: on the exits of call_inner past the depth check, the checkpoint is
\* committed exactly when the exit reason is Succeed (the machine succeeded,
\* or the precompile succeeded and its cost fitted) and reverted exactly
\* when it is Revert or Error (transfer failure, precompile error,
\* precompile out of gas, machine Revert or Error); after a revert the
\* journal is what it was when the frame was entered.
C17_CallInnerCommitsOnSucceedOnly ==
    (evm # None /\ evm[1].last # None /\ evm[1].last[1].kind = "call"
        /\ evm[1].last[1].path # "depth") =>
        LET r == evm[1].last[1]
            closes == evm[1].cps[r.checkpoint].closes
        IN  /\ IsSucceed(r.exit) <=> closes = <<"commit">>
            /\ ~IsSucceed(r.exit) <=> closes = <<"revert">>
            /\ ~IsSucceed(r.exit) => r.journal_after = r.journal_before
            /\ IsSucceed(r.exit) => r.path \in {"machine", "precompile"}
            /\ r.path \in {"transfer", "precompile_error", "precompile_gas"}
                    => ~IsSucceed(r.exit)

\* a top-level call failed in its machine after a storage write, which the
\* returned journal no longer holds
C17_Witness ==
    /\ evm # None
    /\ evm[1].result # None
    /\ evm[1].last # None
    /\ evm[1].last[1].kind = "call"
    /\ evm[1].last[1].path = "machine"
    /\ ~IsSucceed(evm[1].last[1].exit)
    /\ evm[1].sstores = 1
    /\ \A i \in DOMAIN evm[1].journal : evm[1].journal[i] # "sstore"

\* the intrinsic gas of a call as the specification states it
StatedIntrinsicGas(tx) ==
    LET zero == Cardinality({i \in DOMAIN tx.input : tx.input[i] = 0})
        g == IF SpecEnabled(tx.SPEC, "ISTANBUL") THEN 16 ELSE 68
    IN  21000 + 4 * zero + g * (Len(tx.input) - zero)
        + 2400 * Len(tx.access_list) + 1900 * AccessedSlots(tx.access_list)

\* C18: the intrinsic gas of a call is 21000 + 4 per zero byte + g per
\* non-zero byte + 2400 per access-list address + 1900 per access-list key,
\* g = 16 from Istanbul on and 68 before; call returns OutOfGas exactly when
\* that amount exceeds gas_limit.
C18_IntrinsicGasOfCall ==
    (evm # None /\ evm[1].tx # None /\ evm[1].tx[1].kind = "call") =>
        LET e == evm[1]
            tx == e.tx[1]
        IN  /\ Initialization(e, tx.SPEC, tx.input, FALSE, tx.access_list).cost
                    = StatedIntrinsicGas(tx)
            /\ StatedIntrinsicGas(tx) > tx.gas_limit
                    <=> (e.result # None /\ e.result[1].path = "intrinsic"
                         /\ e.result[1].exit = Exit("Error", "OutOfGas"))

\* the top-level call or create ended at an early return
Aborted ==
    /\ evm # None
    /\ evm[1].result # None
    /\ evm[1].result[1].path \in {"intrinsic", "payment"}

\* C19: a top-level call or create that aborts on the intrinsic-gas check
\* (OutOfGas) or the balance check (OutOfFund) returns the empty State and
\* empty return data, None as the address of a create.
C19_AbortReturnsEmptyState ==
    Aborted =>
        LET r == evm[1].result[1]
        IN  /\ r.state = EmptyState
            /\ r.out = IF evm[1].tx[1].kind = "call" THEN <<>> ELSE None
            /\ r.exit = IF r.path = "intrinsic" THEN Exit("Error", "OutOfGas")
                        ELSE Exit("Error", "OutOfFund")

\* a call aborted on the balance check, after the subroutine incremented the
\* caller's nonce
C19_Witness ==
    /\ Aborted
    /\ evm[1].tx[1].kind = "call"
    /\ evm[1].result[1].path = "payment"
    /\ evm[1].nonce = 1
    /\ evm[1].journal # <<>>

\* C20 as stated: a top-level call or create that aborts on the intrinsic-gas
\* or the balance check reports as gas_spent the gas the transaction paid
\* for, its gas_limit.
C20_AbortReportsGasPaid ==
    Aborted => evm[1].result[1].gas_spent = evm[1].tx[1].gas_limit

\* C20 amended: such an abort reports gas_spent 0 and hands out no state, so
\* nothing is charged: the payment a create debited in the subroutine before
\* the intrinsic-gas check is dropped with it.
C20_AbortReportsNoGas ==
    Aborted =>
        /\ evm[1].result[1].gas_spent = 0
        /\ evm[1].result[1].state = EmptyState

\* a create aborted on the intrinsic-gas check, the payment already debited
\* in the subroutine
C20_Witness ==
    /\ Aborted
    /\ evm[1].tx[1].kind = "create"
    /\ evm[1].result[1].path = "intrinsic"
    /\ evm[1].tx[1].gas_limit > 0
    /\ evm[1].balance \notin CallerBalances

\* the top-level call or create went through finalize
Finalized ==
    /\ evm # None
    /\ evm[1].result # None
    /\ evm[1].result[1].path = "inner"

\* the balance of the caller after the payment of gas_limit * gas_price
PaidBalance(e) == e.db_balance - e.tx[1].gas_limit * e.tx[1].gas_price

\* C21: at the end of a top-level call or create whose refund counter is
\* not negative, the refund is min(refunded, spent / 5) from London on and
\* min(refunded, spent / 2) before; the caller gets back
\* gas_price * (remaining + refund), the coinbase gas_price * (spent - refund).
C21_RefundCapBySpec ==
    (Finalized /\ evm[1].gas.refunded >= 0) =>
        LET e == evm[1]
            divisor == IF SpecEnabled(e.tx[1].SPEC, "LONDON") THEN 5 ELSE 2
            refund == Min(e.gas.refunded, GasSpend(e.gas) \div divisor)
        IN  /\ e.balance = PaidBalance(e)
                    + e.tx[1].gas_price * (GasRemaining(e.gas) + refund)
            /\ e.coinbase = e.tx[1].gas_price * (GasSpend(e.gas) - refund)
            /\ e.result[1].gas_spent = GasSpend(e.gas)

C23_CollisionOnlyIncrementsNonce ==
    (evm # None /\ evm[1].last # None /\ evm[1].last[1].path = "collision") =>
        LET r == evm[1].last[1]
        IN  /\ r.kind = "create"
            /\ r.exit = Exit("Error", "CreateCollision")
            /\ r.journal_after = Append(r.journal_before, "nonce")
            /\ r.stored = None
            /\ r.depth_after = r.depth_before
            /\ evm[1].cps[r.checkpoint].closes = <<"revert">>

\* a create issued by running code, after a storage write, collided
C23_Witness ==
    /\ evm # None
    /\ evm[1].last # None
    /\ evm[1].last[1].path = "collision"
    /\ evm[1].last[1].frames > 0
    /\ \E i \in DOMAIN evm[1].last[1].journal_before :
            evm[1].last[1].journal_before[i] = "sstore"

\* the init code of the create_inner that returned last ran and succeeded
InitCodeSucceeded ==
    /\ evm # None
    /\ evm[1].last # None
    /\ evm[1].last[1].kind = "create"
    /\ evm[1].last[1].machine # None
    /\ IsSucceed(evm[1].last[1].machine[1].exit)

\* C24: under every spec from Spurious Dragon on, when the init code
\* succeeds with code longer than the limit, create_inner reverts the
\* checkpoint, sets no code and returns CreateContractLimit; code within the
\* limit is not refused with CreateContractLimit.
C24_CodeSizeLimit ==
    (InitCodeSucceeded /\ SpecEnabled(evm[1].tx[1].SPEC, "SPURIOUS_DRAGON")) =>
        LET r == evm[1].last[1]
        IN  IF Len(r.machine[1].out) > MAX_CODE_LEN
            THEN /\ r.exit = Exit("Error", "CreateContractLimit")
                 /\ r.stored = None
                 /\ evm[1].cps[r.checkpoint].closes = <<"revert">>
            ELSE r.exit # Exit("Error", "CreateContractLimit")

\* C25: after init code succeeded with code the size check lets pass,
\* create_inner charges 200 gas per byte of the code; if the gas the machine
\* left does not cover it, the checkpoint is reverted (only the caller's
\* nonce increment stays), no code is set and OutOfGas is returned;
\* otherwise the checkpoint is committed and the code stored.
C25_CodeDepositCharged ==
    (InitCodeSucceeded /\ evm[1].last[1].path # "code_limit") =>
        LET r == evm[1].last[1]
            code == r.machine[1].out
            left == r.machine[1].left
            closes == evm[1].cps[r.checkpoint].closes
        IN  IF 200 * Len(code) > left
            THEN /\ r.exit = Exit("Error", "OutOfGas")
                 /\ r.stored = None
                 /\ closes = <<"revert">>
                 /\ r.journal_after = Append(r.journal_before, "nonce")
                 /\ GasRemaining(r.gas) = left
            ELSE /\ r.exit = Exit("Succeed", "Returned")
                 /\ r.stored # None
                 /\ r.stored[1].code = code
                 /\ closes = <<"commit">>
                 /\ GasRemaining(r.gas) = left - 200 * Len(code)
                 /\ r.journal_after[Len(r.journal_after)] = "code"

\* the init code wrote storage and succeeded, the gas it left did not pay
\* for the code it returned
C25_Witness ==
    /\ InitCodeSucceeded
    /\ evm[1].last[1].path = "code_deposit"
    /\ evm[1].last[1].machine[1].out # <<>>
    /\ evm[1].sstores = 1

\* C26: the code_hash stored with an account's code is the keccak hash of
\* that code: after a successful create, the hash set_code stored on the
\* created address is the hash of the code the init code returned.
C26_CodeHashIsKeccakOfCode ==
    (evm # None /\ evm[1].last # None /\ evm[1].last[1].stored # None) =>
        evm[1].last[1].stored[1].code_hash = Keccak(evm[1].last[1].stored[1].code)

\* a call_inner or create_inner returned at its depth check
ReturnedTooDeep ==
    /\ evm # None
    /\ evm[1].last # None
    /\ evm[1].last[1].path = "depth"

Stepped == machine # None /\ machine[1].opcode # None

\* the code the contract of m was made of
CodeOf(m) == SubSeq(m.contract.code, 1, m.contract.code_size)

\* the offsets (from 0) of the opcodes of code from offset i on: the bytes
\* that are not immediates of a PUSH
RECURSIVE OpcodeOffsets(_, _)
OpcodeOffsets(code, i) ==
    IF i >= Len(code) THEN {}
    ELSE {i} \cup OpcodeOffsets(code, IF code[i + 1] \in PUSH1..PUSH32
                                      THEN i + 2 + code[i + 1] - PUSH1
                                      ELSE i + 1)

\* dest is below the code length and the byte at dest is a JUMPDEST outside
\* any PUSH immediate
StatedValidJump(m, dest) ==
    /\ dest < Len(CodeOf(m))
    /\ CodeOf(m)[dest + 1] = JUMPDEST
    /\ dest \in OpcodeOffsets(CodeOf(m), 0)

\* the last step was a JUMP, or a JUMPI with a non-zero condition, that
\* popped its operands
Jumped ==
    /\ Stepped
    /\ \/ machine[1].opcode = Some(JUMP) /\ Len(machine[1].popped) = 1
       \/ /\ machine[1].opcode = Some(JUMPI)
          /\ Len(machine[1].popped) = 2
          /\ machine[1].popped[2] # 0

\* C28: a JUMP, and a JUMPI with a non-zero condition, moves the program
\* counter to dest and continues exactly when dest is below the code length
\* and the byte at dest is a JUMPDEST outside any PUSH immediate; with every
\* other dest, a dest that does not fit usize included, it halts with
\* InvalidJump
C28_JumpOnlyToValidJumpdest ==
    Jumped =>
        LET m == machine[1]
            dest == m.popped[1]
        IN  IF StatedValidJump(m, dest)
            THEN m.ret = "Continue" /\ m.program_counter = dest
            ELSE m.ret = "InvalidJump"

\* a JUMPI with a non-zero condition moved the program counter to a JUMPDEST
C28_Witness ==
    /\ Jumped
    /\ machine[1].opcode = Some(JUMPI)
    /\ StatedValidJump(machine[1], machine[1].popped[1])
    /\ machine[1].ret = "Continue"
    /\ machine[1].program_counter = machine[1].popped[1]

\* the machine that ran code halted
Halted(code) ==
    /\ Stepped
    /\ CodeOf(machine[1]) = code
    /\ machine[1].ret # "Continue"

\* C29 as stated: PUSH1 5; JUMP; STOP; JUMPDEST; STOP exits with Stopped, and
\* the same code with push value 4 exits with InvalidJump
C29_JumpScenarioAsStated ==
    /\ Halted(JumpProgram(5)) => machine[1].ret = "Stopped"
    /\ Halted(JumpProgram(4)) => machine[1].ret = "InvalidJump"

\* C29 amended: the JUMPDEST of PUSH1 dest; JUMP; STOP; JUMPDEST; STOP is at
\* offset 4, so the code with push value 4 exits with Stopped, at the STOP of
\* offset 5, and the code with push value 5 exits with InvalidJump
C29_JumpScenario ==
    /\ JumpProgram(4)[4 + 1] = JUMPDEST
    /\ JumpProgram(5)[5 + 1] = STOP
    /\ Halted(JumpProgram(4)) => machine[1].ret = "Stopped" /\ machine[1].position = 5
    /\ Halted(JumpProgram(5)) => machine[1].ret = "InvalidJump"

\* the code with push value 4 stopped after its jump
C29_Witness ==
    /\ Halted(JumpProgram(4))
    /\ machine[1].ret = "Stopped"
    /\ machine[1].position = 5

InnerReturned == evm # None /\ evm[1].last # None

\* the bytes start .. start + len of the memory of m
MemoryRange(m, start, len) == [i \in 1..len |-> m.memory[start + i]]

\* C31: a frame that ends with an Error exit returns no data to its caller; a
\* frame whose machine ends with Revert returns the bytes of the memory its
\* REVERT selected; and the return value of a machine ended by a RETURN or
\* REVERT with len = 0 is empty
C31_ErrorReturnsNoData ==
    InnerReturned =>
        LET r == evm[1].last[1]
        IN  /\ r.exit.class = "Error" => r.out = <<>>
            /\ (r.exit.class = "Revert" /\ r.machine # None) =>
                 /\ machine[1].opcode = Some(REVERT)
                 /\ r.out = MemoryRange(machine[1], machine[1].popped[1],
                                        machine[1].popped[2])
            /\ (/\ r.machine # None
                /\ machine[1].ret \in {"Return", "Revert"}
                /\ machine[1].popped[2] = 0) => r.machine[1].out = <<>>

\* a call frame whose machine stored a byte and reverted with it has returned
\* the byte
C31_Witness ==
    /\ InnerReturned
    /\ evm[1].last[1].kind = "call"
    /\ evm[1].last[1].exit.class = "Revert"
    /\ evm[1].last[1].out = <<1>>
    /\ machine[1].memory[1] = 1

\* a frame whose machine ran out of gas in RETURN, or jumped to an invalid
\* destination after it stored a byte, has returned no data
C31_ErrorWitness ==
    /\ InnerReturned
    /\ evm[1].last[1].machine # None
    /\ evm[1].last[1].exit.class = "Error"
    /\ machine[1].memory # <<>>
    /\ evm[1].last[1].out = <<>>

\* an SSTORE was executed on the slot
Stored == sstores # None /\ sstores[1].writes > 0

\* the gas C32 states for sstore_cost
StatedSstoreCost(original, current, new, is_cold) ==
    (IF current = new THEN 100
     ELSE IF original = current THEN (IF original = 0 THEN 20000 ELSE 2900)
     ELSE 100)
    + (IF is_cold THEN 2100 ELSE 0)

\* C32: under the EIP-2200 / EIP-2929 rules (from Berlin on), and with more
\* gas left than the stipend, sstore_cost is 100 if current = new, otherwise
\* 20000 (original = 0) or 2900 (original # 0) if original = current,
\* otherwise 100, plus 2100 in every case if the slot is cold
C32_SstoreCost ==
    (Stored /\ SpecEnabled(sstores[1].SPEC, "BERLIN")
            /\ sstores[1].found.gas > CALL_STIPEND) =>
        LET s == sstores[1]
        IN  s.cost = Some(StatedSstoreCost(s.original, s.found.current, s.new[1],
                                           s.found.is_cold))

\* a slot changed before, and warm, is written again with another value: 100
C32_Witness ==
    /\ Stored
    /\ SpecEnabled(sstores[1].SPEC, "BERLIN")
    /\ sstores[1].original # sstores[1].found.current
    /\ sstores[1].found.current # sstores[1].current
    /\ sstores[1].cost = Some(100)

\* the refund C33 states for sstore_refund (nothing for a slot not changed
\* before that is set to a value other than 0)
StatedSstoreRefund(original, current, new) ==
    IF current = new THEN 0
    ELSE IF original = current THEN (IF new = 0 THEN 4800 ELSE 0)
    ELSE (IF original # 0 /\ current = 0 THEN 0 - 4800 ELSE 0)
         + (IF original # 0 /\ new = 0 THEN 4800 ELSE 0)
         + (IF original = new THEN (IF original = 0 THEN 19900 ELSE 2800) ELSE 0)

\* C33: under the EIP-2200 / EIP-3529 rules (London) sstore_refund is 0 if
\* current = new, 4800 if original = current and new = 0, and for a slot
\* changed before the sum of -4800 if original # 0 and current = 0, 4800 if
\* original # 0 and new = 0, and, if original = new, 19900 (original = 0) or
\* 2800; so SSTORE(X, 1); SSTORE(X, 0) on a slot of original value 0 leaves a
\* refund counter of 19900
C33_SstoreRefund ==
    (Stored /\ sstores[1].SPEC = "LONDON" /\ sstores[1].ret = "Continue") =>
        LET s == sstores[1]
        IN  /\ s.refund = StatedSstoreRefund(s.original, s.found.current, s.new[1])
            /\ (/\ s.original = 0
                /\ s.writes = 2
                /\ s.found.current = 1
                /\ s.current = 0) => s.refunded = 19900

\* SSTORE(X, 1); SSTORE(X, 0) on a slot of original value 0 under London
C33_Witness ==
    /\ Stored
    /\ sstores[1].SPEC = "LONDON"
    /\ sstores[1].ret = "Continue"
    /\ sstores[1].original = 0
    /\ sstores[1].writes = 2
    /\ sstores[1].found.current = 1
    /\ sstores[1].current = 0
    /\ sstores[1].refunded = 19900

\* C34: under the specs with the stipend protection of EIP-2200 (from
\* Istanbul on) an SSTORE with at most 2300 gas left fails with OutOfGas,
\* whatever original, current, new and is_cold are, and one with more gas
\* left is priced: it fails only if the gas left does not pay sstore_cost
C34_SstoreUnderStipend ==
    (Stored /\ SpecEnabled(sstores[1].SPEC, "ISTANBUL")) =>
        LET s == sstores[1]
        IN  IF s.found.gas <= 2300
            THEN s.ret = "OutOfGas" /\ s.cost = None
            ELSE /\ s.cost # None
                 /\ s.ret = "OutOfGas" <=> s.cost[1] > s.found.gas
                 /\ s.ret = "Continue" => s.gas = s.found.gas - s.cost[1]

\* an SSTORE that leaves the slot as it is failed with exactly 2300 gas left
C34_Witness ==
    /\ Stored
    /\ SpecEnabled(sstores[1].SPEC, "ISTANBUL")
    /\ sstores[1].found.gas = 2300
    /\ sstores[1].found.current = sstores[1].current
    /\ sstores[1].ret = "OutOfGas"

\* C40: under the EIP-2200 metering rules (from Istanbul on) the sum of the
\* sstore_refund values of the SSTOREs of a transaction to one slot is not
\* negative after any of them
C40_RefundSumNotNegative ==
    (Stored /\ SpecEnabled(sstores[1].SPEC, "ISTANBUL")) => sstores[1].refunded >= 0

\* an SSTORE with a negative sstore_refund has taken the refund counter to 0
C40_Witness ==
    /\ Stored
    /\ SpecEnabled(sstores[1].SPEC, "ISTANBUL")
    /\ sstores[1].refund < 0
    /\ sstores[1].refunded = 0

\* C39: at the end of a top-level call or create that went through finalize,
\* what the caller was reimbursed and what the coinbase was credited add up
\* to the payment gas_limit * gas_price taken from the caller, whatever gas
\* remains and whatever the refund counter is
C39_GasPaymentConserved ==
    Finalized =>
        LET e == evm[1]
        IN  (e.balance - PaidBalance(e)) + e.coinbase
                = e.tx[1].gas_limit * e.tx[1].gas_price

\* a transaction with gas left and a refund was finalized: the caller was
\* reimbursed more than the gas left, the coinbase credited less than the gas
\* spent
C39_Witness ==
    /\ Finalized
    /\ evm[1].gas.refunded > 0
    /\ GasRemaining(evm[1].gas) > 0
    /\ evm[1].balance - PaidBalance(evm[1])
           > evm[1].tx[1].gas_price * GasRemaining(evm[1].gas)
    /\ evm[1].coinbase < evm[1].tx[1].gas_price * GasSpend(evm[1].gas)

\* the positions of the reverts of the upper bundle
UpperReverts ==
    UNION {{<<i, j>> : j \in DOMAIN upper.reverts[i]} : i \in DOMAIN upper.reverts}

\* the revert of the upper bundle at position p, as extend was given it
GivenRevert(p) == upper.reverts[p[1]][p[2]]

\* the same revert in the merged bundle, behind the reverts of the lower one
MergedRevert(p) == bundle.reverts[Len(before.reverts) + p[1]][p[2]]

\* C35: in extend, for an address present in both bundles, an upper revert
\* of that address with wipe_storage = true is given every slot of the lower
\* account whose key its storage lacks, with value Some(lower present_value),
\* and the slots it already holds keep their value.
C35_WipeFillsGapsFromLowerAccount ==
    op = "extend" =>
        \A p \in UpperReverts :
            LET e == GivenRevert(p)
                X == e.address
            IN  (X \in DOMAIN before.state /\ X \in DOMAIN upper.state
                    /\ e.revert.wipe_storage) =>
                    /\ \A k \in DOMAIN e.revert.storage :
                        /\ k \in DOMAIN MergedRevert(p).revert.storage
                        /\ MergedRevert(p).revert.storage[k] = e.revert.storage[k]
                    /\ \A k \in DOMAIN before.state[X].storage \ DOMAIN e.revert.storage :
                        /\ k \in DOMAIN MergedRevert(p).revert.storage
                        /\ MergedRevert(p).revert.storage[k] =
                             RevertToSlotSome(before.state[X].storage[k].present_value)

\* C36: in extend, the wipe_storage flag of an upper revert is reset to
\* false exactly when the lower account of the revert's address was already
\* destroyed; when that account was not destroyed the flag stays true.
C36_WipeFlagClearedIffLowerDestroyed ==
    op = "extend" =>
        \A p \in UpperReverts :
            LET e == GivenRevert(p)
                X == e.address
            IN  (X \in DOMAIN before.state /\ X \in DOMAIN upper.state
                    /\ e.revert.wipe_storage) =>
                    (MergedRevert(p).revert.wipe_storage
                        <=> ~AccountWasDestroyed(before.state[X]))

\* C37: extend changes the storage and the wipe_storage flag of an upper
\* revert only by the lower account of the revert's own address A: every slot
\* the revert gains is a slot of the lower account of A, with that account's
\* present value, the flag is cleared only when the lower account of A was
\* destroyed, and a revert whose address the lower bundle lacks is unchanged.
C37_WipeFillUsesOwnAddressOnly ==
    op = "extend" =>
        \A p \in UpperReverts :
            LET e == GivenRevert(p)
                m == MergedRevert(p)
                A == e.address
            IN  IF A \notin DOMAIN before.state
                THEN m = e
                ELSE /\ \A k \in DOMAIN m.revert.storage \ DOMAIN e.revert.storage :
                        /\ k \in DOMAIN before.state[A].storage
                        /\ m.revert.storage[k] =
                             RevertToSlotSome(before.state[A].storage[k].present_value)
                     /\ (e.revert.wipe_storage /\ ~m.revert.wipe_storage) =>
                            AccountWasDestroyed(before.state[A])

\* the storage extend leaves to an account held by both bundles
MergedStorageAsStated(X) ==
    LET lower == before.state[X].storage
        other == upper.state[X].storage
        merged == bundle.state[X].storage
    IN  IF AccountWasDestroyed(upper.state[X])
        THEN merged = other
        ELSE /\ DOMAIN merged = DOMAIN lower \cup DOMAIN other
             /\ \A k \in DOMAIN lower \cap DOMAIN other :
                    merged[k] = StorageSlot(lower[k].original_value,
                                            other[k].present_value)
             /\ \A k \in DOMAIN lower \ DOMAIN other : merged[k] = lower[k]
             /\ \A k \in DOMAIN other \ DOMAIN lower : merged[k] = other[k]

\* C38: when extend merges an account present in both bundles, the merged
\* storage is exactly the upper account's storage if the upper account was
\* destroyed; otherwise a slot in both keeps the lower original_value and
\* takes the upper present_value, a slot only in the lower bundle is
\* unchanged and a slot only in the upper bundle is inserted as given; the
\* merged reverts are the lower reverts followed by the upper reverts.
C38_MergedStorageAndRevertsAsStated ==
    op = "extend" =>
        /\ \A X \in DOMAIN before.state \cap DOMAIN upper.state :
                MergedStorageAsStated(X)
        /\ bundle.reverts = before.reverts \o upper.reverts

\* C38 (amended): the storage of a merged account is as stated; the merged
\* reverts are the lower reverts followed by one entry per upper entry, in
\* order, each upper revert at its position with its address, account and
\* previous_status, and with its storage and wipe_storage flag as given
\* unless it carried the wipe_storage flag.
C38_MergedStorageAndRevertsInOrder ==
    op = "extend" =>
        /\ \A X \in DOMAIN before.state \cap DOMAIN upper.state :
                MergedStorageAsStated(X)
        /\ Len(bundle.reverts) = Len(before.reverts) + Len(upper.reverts)
        /\ SubSeq(bundle.reverts, 1, Len(before.reverts)) = before.reverts
        /\ \A i \in DOMAIN upper.reverts :
                Len(bundle.reverts[Len(before.reverts) + i]) = Len(upper.reverts[i])
        /\ \A p \in UpperReverts :
                LET e == GivenRevert(p)
                    m == MergedRevert(p)
                IN  /\ m.address = e.address
                    /\ m.revert.account = e.revert.account
                    /\ m.revert.previous_status = e.revert.previous_status
                    /\ ~e.revert.wipe_storage => m = e

C38_Witness ==
    /\ op = "extend"
    /\ ~AccountWasDestroyed(upper.state[account1])
    /\ AccountWasDestroyed(upper.state[account2])
    /\ before.state[account1].storage[slot].original_value
         # upper.state[account1].storage[slot].original_value
    /\ bundle.state[account1].storage[slot] = StorageSlot(0, 15)
    /\ slot + 1 \in DOMAIN bundle.state[account1].storage
    /\ bundle.state[account2].storage = upper.state[account2].storage
    /\ before.state[account2].storage # upper.state[account2].storage
    /\ before.reverts # <<>>
    /\ MergedRevert(<<1, 2>>) # GivenRevert(<<1, 2>>)
    /\ MergedRevert(<<1, 1>>) = GivenRevert(<<1, 1>>)

\* C38 on bundles where an upper account destroyed nothing and gains a slot
C38_InsertWitness ==
    /\ op = "extend"
    /\ ~AccountWasDestroyed(upper.state[account2])
    /\ DOMAIN bundle.state[account2].storage = {slot, slot + 1}
    /\ bundle.state[account2].storage[slot] = upper.state[account2].storage[slot]

====
